---------------------------- MODULE Spec2Model ----------------------------
(***************************************************************************)
(* A model of ezobjects-mysql (src/unnamed/part_017, first module, lines   *)
(* 1-1508): the type transforms (setTransform, setArrayTransform, the      *)
(* ezobjectTypes registry), the class synthesizer (constructor, init,      *)
(* accessors) and the generated persistence methods.                       *)
(*                                                                         *)
(* JavaScript values are records [t, v]: t is the runtime shape, v the     *)
(* payload.  Numbers are fixed-point, counted in tenths (15 is 1.5), so    *)
(* that parseInt and parseFloat differ.  Strings are sequences of          *)
(* one-character strings, so that join, split, substr and the parsers      *)
(* work on characters.                                                     *)
(***************************************************************************)
EXTENDS Integers, Sequences, FiniteSets, TLC

VARIABLES
  property,   \* accessor spec: the validated property configuration
  slot,       \* accessor spec: this[`_${property.name}`] of the instance
  before,     \* accessor spec: slot as it was before the last call
  call,       \* accessor spec: the last call made, [name, args]
  result,     \* accessor spec: how the last call ended, [status, val]
  chain,      \* inheritance spec: class configurations, root first
  fields,     \* inheritance spec: the instance's slots, by property name
  setLog,     \* inheritance spec: setters run by the last init, in order
  initState,  \* inheritance spec: where init stands, [pc, runs, level, index, data]
  table,      \* persistence spec: rows of the table, by id
  nextId,     \* persistence spec: the service's next insertId
  obj,        \* persistence spec: the calling instance, [id, label]
  fresh,      \* persistence spec: result of the last load on a new instance
  dbCall,     \* persistence spec: the last method called, [name, ...]
  sinceUpdate,\* persistence spec: label at the most recent update
  codec,      \* codec spec: [pc, p, v, stored, loaded]
  queries,    \* service specs: the queries issued on the service, in order
  nested,     \* nested-object spec: the transform at work, [pc, ...]
  config,     \* validation spec: the configuration and how validation ended
  json,       \* serialization spec: [pc, p, v, parsed, rebuilt]
  heap,       \* sharing spec: the objects alive, by reference
  conn,       \* connection spec: the MySQLConnection and its pending calls
  statement,  \* statement spec: the class, the call and what the service got
  loading,    \* load-order spec: where one load stands
  registry    \* registry spec: ezobjectTypes and the properties validated

accVars == <<property, slot, before, call, result>>
inhVars == <<chain, fields, setLog, initState>>
dbVars == <<table, nextId, obj, fresh, dbCall, sinceUpdate>>
moreVars == <<heap, conn, statement, loading, registry>>
restVars == <<queries, nested, config, json, moreVars>>
vars == <<property, slot, before, call, result, chain, fields, setLog,
          initState, table, nextId, obj, fresh, dbCall, sinceUpdate, codec,
          queries, nested, config, json, heap, conn, statement, loading,
          registry>>

-----------------------------------------------------------------------------
(* Each specification below uses one group of variables; the others rest *)

AccIdle ==
  /\ property = <<>>
  /\ slot = <<>>
  /\ before = <<>>
  /\ call = <<>>
  /\ result = <<>>

InhIdle ==
  /\ chain = <<>>
  /\ fields = <<>>
  /\ setLog = <<>>
  /\ initState = <<>>

DbIdle ==
  /\ table = <<>>
  /\ nextId = 0
  /\ obj = <<>>
  /\ fresh = <<>>
  /\ dbCall = <<>>
  /\ sinceUpdate = <<>>

CodecIdle == codec = <<>>

MoreIdle ==
  /\ heap = <<>>
  /\ conn = <<>>
  /\ statement = <<>>
  /\ loading = <<>>
  /\ registry = <<>>

RestIdle ==
  /\ queries = <<>>
  /\ nested = <<>>
  /\ config = <<>>
  /\ json = <<>>
  /\ MoreIdle

-----------------------------------------------------------------------------
(* Bounds *)

MaxLen == 2        \* longest array a push or unshift may grow
MaxDepth == 3      \* classes in the longest inheritance chain
MaxRows == 2       \* rows the service stores
MaxRefs == 3       \* longest list of nested objects

-----------------------------------------------------------------------------
(* JavaScript values *)

Null == [t |-> "null", v |-> 0]
Undef == [t |-> "undefined", v |-> 0]
NaN == [t |-> "NaN", v |-> 0]
InvalidDate == [t |-> "InvalidDate", v |-> 0]
Num(n) == [t |-> "number", v |-> n]
Str(s) == [t |-> "string", v |-> s]
Bool(b) == [t |-> "boolean", v |-> b]
DateV(day, tod) == [t |-> "Date", v |-> <<day, tod>>]
Buf(bytes) == [t |-> "Buffer", v |-> bytes]
SetV(members) == [t |-> "Set", v |-> members]
Obj == [t |-> "Object", v |-> 0]
Inst(cls, id) == [t |-> "object", v |-> <<cls, id>>]
Plain(cls, id) == [t |-> "Plain", v |-> <<cls, id>>]
Arr(elems) == [t |-> "Array", v |-> elems]

\* typeof x
TypeOf(x) ==
  CASE x.t \in {"number", "NaN"} -> "number"
    [] x.t = "string" -> "string"
    [] x.t = "boolean" -> "boolean"
    [] x.t = "undefined" -> "undefined"
    [] OTHER -> "object"

\* x.constructor.name
ConstructorName(x) ==
  CASE x.t \in {"number", "NaN"} -> "Number"
    [] x.t = "string" -> "String"
    [] x.t = "boolean" -> "Boolean"
    [] x.t \in {"Date", "InvalidDate"} -> "Date"
    [] x.t = "Buffer" -> "Buffer"
    [] x.t = "Set" -> "Set"
    [] x.t \in {"Object", "Plain", "BufferJson"} -> "Object"
    [] x.t = "object" -> x.v[1]
    [] x.t = "Array" -> "Array"
    [] OTHER -> "none"

\* JavaScript truthiness, as used by `x ? a : b`
Truthy(x) ==
  CASE x.t \in {"null", "undefined", "NaN"} -> FALSE
    [] x.t = "number" -> x.v # 0
    [] x.t = "string" -> x.v # <<>>
    [] x.t = "boolean" -> x.v
    [] OTHER -> TRUE

-----------------------------------------------------------------------------
(* Strings as character sequences *)

Digits == <<"0", "1", "2", "3", "4", "5", "6", "7", "8", "9">>
IsDigit(c) == \E i \in 1..10 : Digits[i] = c
DigitVal(c) == (CHOOSE i \in 1..10 : Digits[i] = c) - 1

RECURSIVE NatToStr(_)
NatToStr(n) ==
  IF n < 10 THEN <<Digits[n + 1]>>
  ELSE NatToStr(n \div 10) \o <<Digits[(n % 10) + 1]>>

\* Number.prototype.toString for a non-negative number counted in tenths
NumToStr(n) ==
  NatToStr(n \div 10) \o (IF n % 10 = 0 THEN <<>> ELSE <<".", Digits[(n % 10) + 1]>>)

\* number of leading decimal digits of s
RECURSIVE LeadingDigits(_)
LeadingDigits(s) ==
  IF s = <<>> \/ ~IsDigit(Head(s)) THEN 0 ELSE 1 + LeadingDigits(Tail(s))

RECURSIVE DigitsToNat(_)
DigitsToNat(s) ==
  IF s = <<>> THEN 0 ELSE DigitsToNat(SubSeq(s, 1, Len(s) - 1)) * 10 + DigitVal(s[Len(s)])

\* parseInt(s) for a string: the leading digits, NaN when there are none
ParseIntStr(s) ==
  LET k == LeadingDigits(s) IN
  IF k = 0 THEN NaN ELSE Num(DigitsToNat(SubSeq(s, 1, k)) * 10)

\* parseFloat(s) for a string: leading digits, then `.` and one digit of tenths
ParseFloatStr(s) ==
  LET k == LeadingDigits(s)
      hasFrac == Len(s) >= k + 2 /\ s[k + 1] = "." /\ IsDigit(s[k + 2])
  IN IF k = 0 /\ ~hasFrac THEN NaN
     ELSE Num(DigitsToNat(SubSeq(s, 1, k)) * 10 + (IF hasFrac THEN DigitVal(s[k + 2]) ELSE 0))

\* Number(s) for a string: the whole string must be numeric, `` is 0
NumberStr(s) ==
  LET k == LeadingDigits(s) IN
  IF s = <<>> THEN Num(0)
  ELSE IF k = Len(s) /\ k > 0 THEN ParseIntStr(s)
  ELSE IF Len(s) = k + 2 /\ s[k + 1] = "." /\ IsDigit(s[k + 2]) THEN ParseFloatStr(s)
  ELSE NaN

\* Array.prototype.join on strings
RECURSIVE Join(_, _)
Join(parts, sep) ==
  IF parts = <<>> THEN <<>>
  ELSE IF Len(parts) = 1 THEN parts[1]
  ELSE parts[1] \o sep \o Join(Tail(parts), sep)

IsPrefix(p, s) == Len(p) <= Len(s) /\ SubSeq(s, 1, Len(p)) = p

\* String.prototype.split with a non-empty separator: ``.split(sep) is [``]
RECURSIVE SplitFrom(_, _, _)
SplitFrom(s, sep, acc) ==
  IF s = <<>> THEN <<acc>>
  ELSE IF IsPrefix(sep, s) THEN <<acc>> \o SplitFrom(SubSeq(s, Len(sep) + 1, Len(s)), sep, <<>>)
  ELSE SplitFrom(Tail(s), sep, Append(acc, Head(s)))

Split(s, sep) == SplitFrom(s, sep, <<>>)

\* String.prototype.substr(0, n)
Substr0(s, n) == SubSeq(s, 1, IF n < Len(s) THEN n ELSE Len(s))

\* Array.prototype.map
RECURSIVE Map(_, _)
Map(F(_), s) == IF s = <<>> THEN <<>> ELSE <<F(Head(s))>> \o Map(F, Tail(s))

-----------------------------------------------------------------------------
(* JavaScript conversions *)

\* global isNaN(x): Number(x) is NaN
IsNaN(x) ==
  CASE x.t = "number" -> FALSE
    [] x.t = "NaN" -> TRUE
    [] x.t = "string" -> NumberStr(x.v) = NaN
    [] x.t = "boolean" -> FALSE
    [] x.t = "null" -> FALSE
    [] x.t = "Date" -> FALSE
    [] x.t = "Buffer" -> x.v # <<>>
    [] x.t = "Array" ->
         IF x.v = <<>> THEN FALSE
         ELSE IF Len(x.v) = 1 /\ x.v[1].t = "number" THEN FALSE
         ELSE IF Len(x.v) = 1 /\ x.v[1].t = "string" THEN NumberStr(x.v[1].v) = NaN
         ELSE IF Len(x.v) = 1 /\ x.v[1].t = "null" THEN FALSE
         ELSE TRUE
    [] OTHER -> TRUE

\* parseInt(x)
ParseInt(x) ==
  CASE x.t = "number" -> Num((x.v \div 10) * 10)
    [] x.t = "string" -> ParseIntStr(x.v)
    [] x.t = "Array" ->
         IF Len(x.v) >= 1 /\ x.v[1].t = "number" THEN Num((x.v[1].v \div 10) * 10)
         ELSE IF Len(x.v) >= 1 /\ x.v[1].t = "string" THEN ParseIntStr(x.v[1].v)
         ELSE NaN
    [] OTHER -> NaN

\* parseFloat(x)
ParseFloat(x) ==
  CASE x.t = "number" -> x
    [] x.t = "string" -> ParseFloatStr(x.v)
    [] x.t = "Array" ->
         IF Len(x.v) >= 1 /\ x.v[1].t = "number" THEN x.v[1]
         ELSE IF Len(x.v) >= 1 /\ x.v[1].t = "string" THEN ParseFloatStr(x.v[1].v)
         ELSE NaN
    [] OTHER -> NaN

\* x.toString() of a string or a number
JsToString(x) == IF x.t = "string" THEN x.v ELSE IF x.t = "number" THEN NumToStr(x.v) ELSE <<"N", "a", "N">>

\* the regular expression /^[0-9\-T:Z.]+$/ of the Date checks
MatchesDateChars(s) ==
  /\ s # <<>>
  /\ \A i \in 1..Len(s) : IsDigit(s[i]) \/ s[i] \in {"-", "T", ":", "Z", "."}

\* moment(x).format(`YYYY-MM-DD`): the calendar day, written 0-<day>; an
\* invalid date formats as `Invalid date`
FormatDate(d) ==
  IF d.t # "Date" THEN <<"I", "n", "v", "a", "l", "i", "d", " ", "d", "a", "t", "e">>
  ELSE <<"0", "-">> \o NatToStr(d.v[1])

\* moment(x).format(`YYYY-MM-DD HH:mm:ss.SSSSSS`): the day and the time of day
FormatDateTime(d) ==
  IF d.t # "Date" THEN FormatDate(d) ELSE FormatDate(d) \o <<" ">> \o NatToStr(d.v[2])

\* new Date(s) of a string: a day, optionally followed by ` ` or `T` and a
\* time, and by the zone letter `Z` that toISOString writes
NewDate(text) ==
  LET s == IF Len(text) > 3 /\ text[Len(text)] = "Z" THEN SubSeq(text, 1, Len(text) - 1)
           ELSE text
      k == LeadingDigits(SubSeq(s, 3, Len(s)))
      rest == SubSeq(s, 3 + k, Len(s))
  IN IF ~(Len(s) >= 3 /\ s[1] = "0" /\ s[2] = "-" /\ k > 0) THEN InvalidDate
     ELSE IF rest = <<>> THEN DateV(DigitsToNat(SubSeq(s, 3, 2 + k)), 0)
     ELSE IF /\ rest[1] \in {" ", "T"}
             /\ Len(rest) >= 2
             /\ LeadingDigits(Tail(rest)) = Len(rest) - 1
          THEN DateV(DigitsToNat(SubSeq(s, 3, 2 + k)), DigitsToNat(Tail(rest)))
     ELSE InvalidDate

-----------------------------------------------------------------------------
(* The type registry, ezobjectTypes *)

NumberTypes == {"tinyint", "smallint", "mediumint", "int", "bigint",
                "real", "double", "float", "decimal", "numeric"}
DecimalTypes == {"real", "double", "float", "decimal", "numeric"}
StringTypes == {"time", "char", "varchar", "tinytext", "text", "mediumtext", "longtext"}
DateTypes == {"date", "timestamp", "datetime"}
BufferTypes == {"bit", "binary", "varbinary", "tinyblob", "blob", "mediumblob", "longblob"}

\* ezobjectType.jsType of the descriptor found for a type; `other` when none is
JsType(type) ==
  CASE type \in NumberTypes -> "number"
    [] type \in StringTypes -> "string"
    [] type \in DateTypes -> "Date"
    [] type \in BufferTypes -> "Buffer"
    [] type = "set" -> "Set"
    [] type = "boolean" -> "boolean"
    [] type = "object" -> "Object"
    [] type = "array" -> "Array"
    [] OTHER -> "object"

\* ezobjectType.type of the descriptor found for a type
DescriptorType(type) ==
  IF JsType(type) = "object" THEN "other" ELSE type

\* ezobjectType.hasDecimals
HasDecimals(type) == type \in DecimalTypes

\* ezobjectType.default
TypeDefault(type) ==
  CASE type \in NumberTypes -> Num(0)
    [] type = "time" -> Str(<<"0", "0", ":", "0", "0", ":", "0", "0">>)
    [] type \in StringTypes \ {"time"} -> Str(<<>>)
    [] type \in DateTypes -> Null
    [] type \in BufferTypes -> Buf(<<>>)
    [] type = "set" -> SetV(<<>>)
    [] type = "boolean" -> Bool(FALSE)
    [] type = "object" -> Obj
    [] type = "array" -> Arr(<<>>)
    [] OTHER -> Null

-----------------------------------------------------------------------------
(* Property configurations *)

NoArrayOf == [type |-> "none", originalType |-> "none", allowNull |-> FALSE, length |-> 0]
NoDefault == [t |-> "undefined", v |-> 0]

\* the allowNull default of validatePropertyConfig, for the property itself
AllowNullDefault(type) ==
  ~(/\ DescriptorType(type) # "other"
    /\ DescriptorType(type) # "date"
    /\ DescriptorType(type) # "datetime"
    /\ DescriptorType(type) # "timestamp")

\* a property configuration after validatePropertyConfig: type is lower case,
\* originalType keeps the case, and an allowNull that is not a boolean ("unset";
\* "true" and "false" stand for the booleans) is filled with its default
ValidatedProperty(name, originalType, type, arrayOf, allowNull, length, default) ==
  [name |-> name,
   type |-> type,
   originalType |-> originalType,
   arrayOf |-> IF arrayOf.type = "none" THEN arrayOf
               ELSE [arrayOf EXCEPT !.allowNull =
                       IF arrayOf.allowNull = "unset" THEN AllowNullDefault(arrayOf.type)
                       ELSE arrayOf.allowNull = "true"],
   allowNull |-> IF allowNull = "unset" THEN AllowNullDefault(type) ELSE allowNull = "true",
   length |-> length,
   default |-> default]

-----------------------------------------------------------------------------
(* setTransform and setArrayTransform *)

Ok(val) == [ok |-> TRUE, val |-> val]
TypeError == [ok |-> FALSE, val |-> [t |-> "TypeError", v |-> 0]]

\* the `object` check of setTransform for a property configured with `type`:
\* the value is an instance of the class, or a plain structure tagged with it
IsOfClass(x, originalType) ==
  /\ TypeOf(x) = "object"
  /\ x # Null
  /\ \/ ConstructorName(x) = originalType
     \/ x.t = "Plain" /\ x.v[1] = originalType

\* the checks of setTransform: TRUE when it throws TypeError
SetTransformThrows(x, p) ==
  LET jsType == JsType(p.type) IN
  IF x = Null /\ ~p.allowNull THEN TRUE
  ELSE IF x # Null /\ jsType = "number" /\ IsNaN(x) THEN TRUE
  ELSE IF x # Null /\ jsType = "string" /\ TypeOf(x) # "string" /\ TypeOf(x) # "number" THEN TRUE
  ELSE IF x # Null /\ jsType = "boolean" /\ TypeOf(x) # "boolean" THEN TRUE
  ELSE IF /\ x # Null
          /\ jsType = "Date"
          /\ (TypeOf(x) # "string" \/ ~MatchesDateChars(x.v))
          /\ (TypeOf(x) # "object" \/ ConstructorName(x) # "Date") THEN TRUE
  ELSE IF x # Null /\ jsType = "Buffer" /\ (TypeOf(x) # "object" \/ ConstructorName(x) # "Buffer") THEN TRUE
  ELSE IF x # Null /\ jsType = "Set" /\ (TypeOf(x) # "object" \/ ConstructorName(x) # "Set") THEN TRUE
  ELSE IF x # Null /\ jsType = "Object" /\ (TypeOf(x) # "object" \/ ConstructorName(x) # "Object") THEN TRUE
  ELSE IF x # Null /\ jsType = "object" /\ ~IsOfClass(x, p.originalType) THEN TRUE
  ELSE FALSE

\* the coercions of setTransform, for a value its checks let through
SetTransformValue(x, p) ==
  LET jsType == JsType(p.type) IN
  IF p.type = "varchar" THEN (IF x = Null THEN Null ELSE Str(Substr0(JsToString(x), p.length)))
  ELSE IF HasDecimals(p.type) THEN (IF x = Null THEN Null ELSE ParseFloat(x))
  ELSE IF jsType = "number" THEN (IF x = Null THEN Null ELSE ParseInt(x))
  ELSE IF jsType = "boolean" THEN (IF x = Null THEN Null ELSE Bool(Truthy(x)))
  ELSE IF jsType = "string" THEN (IF x = Null THEN Null ELSE Str(JsToString(x)))
  ELSE IF jsType = "Date" /\ TypeOf(x) = "string" THEN NewDate(x.v)
  ELSE IF x.t = "Plain" THEN Inst(x.v[1], x.v[2])
  ELSE x

\* setTransform(x, property)
SetTransform(x, p) ==
  IF SetTransformThrows(x, p) THEN TypeError ELSE Ok(SetTransformValue(x, p))

\* x.some(pred) over the elements of an array
Some(P(_), elems) == \E i \in 1..Len(elems) : P(elems[i])

\* the checks of setArrayTransform: TRUE when it throws TypeError
SetArrayTransformThrows(x, p) ==
  LET jsType == JsType(p.arrayOf.type)
      NullElement(y) == y = Null /\ ~p.arrayOf.allowNull
      NotNumber(y) == IsNaN(y) /\ y # Null
      NotString(y) == TypeOf(y) # "string" /\ y # Str(<<"n", "u", "m", "b", "e", "r">>) /\ y # Null
      NotBoolean(y) == TypeOf(y) # "boolean" /\ y # Null
      NotDate(y) == /\ (TypeOf(y) # "object" \/ ConstructorName(y) # "Date")
                    /\ y # Null
                    /\ (TypeOf(y) # "string" \/ ~MatchesDateChars(y.v))
      NotBuffer(y) == (TypeOf(y) # "object" \/ ConstructorName(y) # "Buffer") /\ y # Null
      NotSet(y) == (TypeOf(y) # "object" \/ ConstructorName(y) # "Set") /\ y # Null
      NotObject(y) == (TypeOf(y) # "object" \/ ConstructorName(y) # "Object") /\ y # Null
      NotOfClass(y) == y # Null /\ ~IsOfClass(y, p.arrayOf.originalType)
  IN
  IF x = Null /\ ~p.allowNull THEN TRUE
  ELSE IF x.t # "Array" THEN TRUE
  ELSE IF Some(NullElement, x.v) THEN TRUE
  ELSE IF jsType = "number" /\ Some(NotNumber, x.v) THEN TRUE
  ELSE IF jsType = "string" /\ Some(NotString, x.v) THEN TRUE
  ELSE IF jsType = "boolean" /\ Some(NotBoolean, x.v) THEN TRUE
  ELSE IF jsType = "Date" /\ Some(NotDate, x.v) THEN TRUE
  ELSE IF jsType = "Buffer" /\ Some(NotBuffer, x.v) THEN TRUE
  ELSE IF jsType = "Set" /\ Some(NotSet, x.v) THEN TRUE
  ELSE IF jsType = "Object" /\ Some(NotObject, x.v) THEN TRUE
  ELSE IF jsType = "object" /\ Some(NotOfClass, x.v) THEN TRUE
  ELSE FALSE

\* the element coercions of setArrayTransform, for an array its checks let through
SetArrayTransformValue(x, p) ==
  LET jsType == JsType(p.arrayOf.type)
      Varchar(y) == IF y = Null THEN Null ELSE Str(Substr0(y.v, p.arrayOf.length))
      Decimal(y) == IF y = Null THEN Null ELSE ParseFloat(y)
      Integer(y) == IF y = Null THEN Null ELSE ParseInt(y)
      Boolean(y) == IF y = Null THEN Null ELSE Bool(Truthy(y))
      String(y) == IF y = Null THEN Null ELSE Str(JsToString(y))
      Date(y) == IF y = Null THEN Null ELSE IF TypeOf(y) = "string" THEN NewDate(y.v) ELSE y
      Object(y) == IF y = Null THEN Null ELSE Inst(y.v[1], y.v[2])
      Same(y) == y
  IN
  IF p.arrayOf.type = "varchar" THEN Arr(Map(Varchar, x.v))
  ELSE IF HasDecimals(p.arrayOf.type) THEN Arr(Map(Decimal, x.v))
  ELSE IF jsType = "number" THEN Arr(Map(Integer, x.v))
  ELSE IF jsType = "boolean" THEN Arr(Map(Boolean, x.v))
  ELSE IF jsType = "string" THEN Arr(Map(String, x.v))
  ELSE IF jsType = "Date" THEN Arr(Map(Date, x.v))
  ELSE IF jsType = "object" THEN Arr(Map(Object, x.v))
  ELSE Arr(Map(Same, x.v))

\* setArrayTransform(x, property)
SetArrayTransform(x, p) ==
  IF SetArrayTransformThrows(x, p) THEN TypeError ELSE Ok(SetArrayTransformValue(x, p))

\* property.setTransform, as validatePropertyConfig attaches it from the descriptor
PropertySetTransform(x, p) ==
  IF p.type = "array" THEN SetArrayTransform(x, p) ELSE SetTransform(x, p)
-----------------------------------------------------------------------------
(* The class synthesizer: init and the accessors of one property *)

This == [t |-> "this", v |-> 0]

\* the value init passes to the setter of p for the seed `data`:
\* data[name], else data[`_${name}`], else property.default || ezobjectType.default
InitArgument(data, p) ==
  IF data.plain # Undef THEN data.plain
  ELSE IF data.underscored # Undef THEN data.underscored
  ELSE IF Truthy(p.default) THEN p.default
  ELSE TypeDefault(p.type)

\* prototype[property.name] = function (arg): the getter when arg is undefined,
\* the setter otherwise; arguments after the first are not looked at
AccessorCall(args, s, p) ==
  LET arg == IF Len(args) >= 1 THEN args[1] ELSE Undef IN
  IF arg = Undef THEN [status |-> "ok", val |-> s, slot |-> s]
  ELSE LET r == PropertySetTransform(arg, p) IN
       IF r.ok THEN [status |-> "ok", val |-> This, slot |-> r.val]
       ELSE [status |-> "TypeError", val |-> Undef, slot |-> s]

\* the element a push, unshift or fill of the stored array adds for e: the
\* overriding methods call setTransform with the array's own property
MutationElement(e, p) == SetTransform(e, p)

\* Array.prototype.fill(value) over the whole array
Fill(elems, e) == [i \in 1..Len(elems) |-> e]

-----------------------------------------------------------------------------
(* Inputs of the accessor specification *)

WorkerA == Inst("Worker", 1)
WorkerPlain == Plain("Worker", 1)
Stranger == Inst("Visitor", 1)
StrA == Str(<<"a", "b", "c">>)
StrNum == Str(<<"1", ".", "5">>)
StrDate == Str(<<"0", "-", "1">>)
Empty == Str(<<>>)

ElementValues ==
  {Null, Num(10), Num(15), StrA, StrNum, Empty, Bool(TRUE), Bool(FALSE),
   DateV(1, 1), WorkerA, WorkerPlain, Stranger}

ScalarValues ==
  ElementValues \cup {StrDate, NaN, Buf(<<1, 0>>), SetV(<<<<"a">>>>), Obj}

ArrayValues ==
  {Arr(<<>>)} \cup {Arr(<<e>>) : e \in {Null, Num(10), Num(15), StrA, StrNum, Bool(FALSE), DateV(1, 1), WorkerA}}
    \cup {Arr(<<Num(10), Num(20)>>), Arr(<<StrA, Empty>>)}

Values == ScalarValues \cup ArrayValues

ScalarTypes == {"int", "double", "char", "varchar", "text", "time", "boolean", "date", "set", "binary", "object", "worker"}
ElementTypes == {"int", "varchar", "boolean", "date", "worker"}

OriginalType(type) == IF type = "worker" THEN "Worker" ELSE type

\* defaults a configuration may give a property of the type
ConfigDefaults(type) ==
  CASE type \in NumberTypes -> {NoDefault, Num(0), Num(20), Null}
    [] type \in StringTypes -> {NoDefault, Empty, StrA, Null}
    [] type = "boolean" -> {NoDefault, Bool(FALSE), Bool(TRUE)}
    [] type \in DateTypes -> {NoDefault, DateV(1, 0), Null}
    [] OTHER -> {NoDefault}

ScalarProperties ==
  UNION {{ValidatedProperty("p", OriginalType(type), type, NoArrayOf, allowNull, 2, default) :
            allowNull \in {"unset", "true", "false"}, default \in ConfigDefaults(type)} :
         type \in ScalarTypes}

ArrayProperties ==
  {ValidatedProperty("p", "Array", "array",
                     [type |-> type, originalType |-> OriginalType(type),
                      allowNull |-> elementAllowNull, length |-> 2],
                     allowNull, 0, NoDefault) :
     type \in ElementTypes, allowNull \in {"unset", "true", "false"},
     elementAllowNull \in {"unset", "true", "false"}}

AccessorProperties == ScalarProperties \cup ArrayProperties

MutationValues == {Null, Num(10), StrA, Bool(FALSE), WorkerA}

Seeds ==
  {[plain |-> Undef, underscored |-> Undef]}
    \cup {[plain |-> x, underscored |-> Undef] : x \in Values}
    \cup {[plain |-> Undef, underscored |-> x] : x \in {Null, Num(10), StrA, Bool(TRUE), Arr(<<>>)}}
    \cup {[plain |-> Num(10), underscored |-> Num(20)], [plain |-> StrA, underscored |-> Empty]}

-----------------------------------------------------------------------------
(* The accessor specification: one instance of a class with one property *)

NoCall == [name |-> "none", args |-> <<>>]

AccInit ==
  /\ property \in AccessorProperties
  /\ slot = Undef
  /\ before = Undef
  /\ call = NoCall
  /\ result = [status |-> "new", val |-> Undef]
  /\ InhIdle
  /\ DbIdle
  /\ CodecIdle
  /\ RestIdle

Constructed == slot # Undef

\* new MyObject(data): the constructor runs init(data), which sets the property
Construct(data) ==
  LET r == AccessorCall(<<InitArgument(data, property)>>, Undef, property) IN
  /\ ~Constructed
  /\ before' = slot
  /\ slot' = r.slot
  /\ call' = [name |-> "construct", args |-> <<data.plain, data.underscored>>]
  /\ result' = [status |-> r.status, val |-> r.val]
  /\ UNCHANGED <<property, inhVars, dbVars, codec, restVars>>

\* instance.p(): no argument
Get ==
  LET r == AccessorCall(<<>>, slot, property) IN
  /\ Constructed
  /\ before' = slot
  /\ slot' = r.slot
  /\ call' = [name |-> "get", args |-> <<>>]
  /\ result' = [status |-> r.status, val |-> r.val]
  /\ UNCHANGED <<property, inhVars, dbVars, codec, restVars>>

\* instance.p(x): one argument
Set(x) ==
  LET r == AccessorCall(<<x>>, slot, property) IN
  /\ Constructed
  /\ before' = slot
  /\ slot' = r.slot
  /\ call' = [name |-> "set", args |-> <<x>>]
  /\ result' = [status |-> r.status, val |-> r.val]
  /\ UNCHANGED <<property, inhVars, dbVars, codec, restVars>>

\* instance.p(x, y): two arguments
SetExtra(x, y) ==
  LET r == AccessorCall(<<x, y>>, slot, property) IN
  /\ Constructed
  /\ before' = slot
  /\ slot' = r.slot
  /\ call' = [name |-> "set2", args |-> <<x, y>>]
  /\ result' = [status |-> r.status, val |-> r.val]
  /\ UNCHANGED <<property, inhVars, dbVars, codec, restVars>>

\* instance.p().push(e), on the array the getter returns
Push(e) ==
  LET r == MutationElement(e, property) IN
  /\ Constructed
  /\ slot.t = "Array"
  /\ Len(slot.v) < MaxLen
  /\ before' = slot
  /\ slot' = IF r.ok THEN Arr(Append(slot.v, r.val)) ELSE slot
  /\ call' = [name |-> "push", args |-> <<e>>]
  /\ result' = [status |-> IF r.ok THEN "ok" ELSE "TypeError", val |-> Undef]
  /\ UNCHANGED <<property, inhVars, dbVars, codec, restVars>>

\* instance.p().unshift(e)
Unshift(e) ==
  LET r == MutationElement(e, property) IN
  /\ Constructed
  /\ slot.t = "Array"
  /\ Len(slot.v) < MaxLen
  /\ before' = slot
  /\ slot' = IF r.ok THEN Arr(<<r.val>> \o slot.v) ELSE slot
  /\ call' = [name |-> "unshift", args |-> <<e>>]
  /\ result' = [status |-> IF r.ok THEN "ok" ELSE "TypeError", val |-> Undef]
  /\ UNCHANGED <<property, inhVars, dbVars, codec, restVars>>

\* instance.p().fill(e)
FillAll(e) ==
  LET r == MutationElement(e, property) IN
  /\ Constructed
  /\ slot.t = "Array"
  /\ before' = slot
  /\ slot' = IF r.ok THEN Arr(Fill(slot.v, r.val)) ELSE slot
  /\ call' = [name |-> "fill", args |-> <<e>>]
  /\ result' = [status |-> IF r.ok THEN "ok" ELSE "TypeError", val |-> Undef]
  /\ UNCHANGED <<property, inhVars, dbVars, codec, restVars>>

AccNext ==
  \/ \E data \in Seeds : Construct(data)
  \/ Get
  \/ \E x \in Values \cup {Undef} : Set(x)
  \/ \E x \in {Null, Num(10), StrA, Arr(<<>>), Undef} : SetExtra(x, Num(10))
  \/ \E e \in MutationValues : Push(e)
  \/ \E e \in MutationValues : Unshift(e)
  \/ \E e \in MutationValues : FillAll(e)

AccSpec == AccInit /\ [][AccNext]_vars

-----------------------------------------------------------------------------
(* Claims settled against the accessor specification *)

\* C1: a push, unshift or fill of the stored array with an element e that
\* wholesale assignment of [e] would reject fails with TypeError and leaves
\* the stored array as it was.
C1_MutationRejectsInvalidElement ==
  (/\ call.name \in {"push", "unshift", "fill"}
   /\ SetArrayTransformThrows(Arr(<<call.args[1]>>), property))
    => (result.status = "TypeError" /\ slot = before)

\* C2: for every kind, the accessor called with null fails with TypeError and
\* leaves the stored value unchanged when allowNull is false, and succeeds
\* when allowNull is true, after which the getter returns null.
C2_NullFollowsAllowNull ==
  (call.name = "set" /\ call.args = <<Null>>)
    => IF property.allowNull
       THEN result.status = "ok" /\ AccessorCall(<<>>, slot, property).val = Null
       ELSE result.status = "TypeError" /\ slot = before

\* the value the claim C3 expects init to hand to the setter: the seed's
\* value, else the configured default whatever it is, else the kind's default
C3ExpectedArgument ==
  IF call.args[1] # Undef THEN call.args[1]
  ELSE IF call.args[2] # Undef THEN call.args[2]
  ELSE IF property.default # NoDefault THEN property.default
  ELSE TypeDefault(property.type)

\* C3: after construction the property holds the coerced seed value when the
\* seed gives one, else the coerced configured default when the configuration
\* declares one (0, false, the empty string and null included), else the
\* kind's built-in default.
C3_SeedThenDefaultThenBuiltIn ==
  (/\ call.name = "construct"
   /\ result.status = "ok"
   /\ PropertySetTransform(C3ExpectedArgument, property).ok)
    => slot = PropertySetTransform(C3ExpectedArgument, property).val

\* C7: the accessor with no argument returns the value and changes nothing,
\* with one argument validates and stores it, and with any other number of
\* arguments fails with an invalid-signature error and changes nothing.
C7_AccessorArity ==
  /\ call.name = "get" => (result = [status |-> "ok", val |-> before] /\ slot = before)
  /\ call.name = "set" =>
       LET r == PropertySetTransform(call.args[1], property) IN
       IF r.ok THEN result.status = "ok" /\ slot = r.val
       ELSE result.status = "TypeError" /\ slot = before
  /\ call.name = "set2" => (result.status = "InvalidSignature" /\ slot = before)

-----------------------------------------------------------------------------
(* saveTransform and loadTransform of the registry *)

Thrown == [t |-> "TypeError", v |-> 0]

Comma == <<",">>
Pipe == <<"|">>
TextDelimiter == <<"!", "&", "|", "&", "!">>

\* String(y) as Array.prototype.join applies it: null and undefined give ``
JoinString(y) ==
  CASE y.t \in {"null", "undefined"} -> <<>>
    [] y.t = "string" -> y.v
    [] y.t = "number" -> NumToStr(y.v)
    [] y.t = "NaN" -> <<"N", "a", "N">>
    [] y.t = "boolean" -> IF y.v THEN <<"t", "r", "u", "e">> ELSE <<"f", "a", "l", "s", "e">>
    [] OTHER -> <<"[", "o", "b", "j", "e", "c", "t", "]">>

\* x.join(sep) of an array of values
JoinValues(elems, sep) == Join(Map(JoinString, elems), sep)

\* parseInt(s, 2)
RECURSIVE BinaryToNat(_)
BinaryToNat(s) ==
  IF s = <<>> THEN 0 ELSE BinaryToNat(SubSeq(s, 1, Len(s) - 1)) * 2 + DigitVal(s[Len(s)])

RECURSIVE LeadingBits(_)
LeadingBits(s) ==
  IF s = <<>> \/ Head(s) \notin {"0", "1"} THEN 0 ELSE 1 + LeadingBits(Tail(s))

ParseIntRadix2(s) ==
  IF LeadingBits(s) = 0 THEN NaN ELSE Num(BinaryToNat(SubSeq(s, 1, LeadingBits(s))) * 10)

\* the bytes of a Buffer joined as decimal numbers: buffer.join(sep)
JoinBytes(bytes, sep) == Join(Map(NatToStr, bytes), sep)

\* Buffer.prototype.toString(): UTF-8 decoding, one character per byte below
\* 128 and U+FFFD for a byte that starts no valid sequence (the bytes that
\* occur are 0, 1 and 200)
ByteChar(b) == IF b >= 128 THEN "uFFFD" ELSE IF b = 0 THEN "x00" ELSE "x01"
BufferToString(bytes) == [i \in 1..Len(bytes) |-> ByteChar(bytes[i])]

\* Buffer.from(string): UTF-8 encoding
CharBytes(c) == IF c = "uFFFD" THEN <<239, 191, 189>> ELSE IF c = "x00" THEN <<0>> ELSE <<1>>
RECURSIVE StringToBytes(_)
StringToBytes(s) == IF s = <<>> THEN <<>> ELSE CharBytes(Head(s)) \o StringToBytes(Tail(s))

\* new Set(list): the distinct members in order of first occurrence
RECURSIVE Distinct(_)
Distinct(list) ==
  IF list = <<>> THEN <<>>
  ELSE LET init == Distinct(SubSeq(list, 1, Len(list) - 1))
           last == list[Len(list)]
       IN IF \E i \in 1..Len(init) : init[i] = last THEN init ELSE Append(init, last)

\* a reference whose identity comes before the class tag
ReferenceIdFirst(x) == NatToStr(x.v[2]) \o Comma \o <<x.v[1]>>

\* `${x.constructor.name},${x.id()}`: the class tag is one token of the string
Reference(x) == <<x.v[1]>> \o Comma \o NatToStr(x.v[2])

\* the service as the nested-object transforms see it: the instances its tables hold
StoredObjects == {<<"Worker", 1>>, <<"Worker", 2>>, <<"Manager", 1>>}

\* module.exports.objects: the generated classes, by className
RegisteredClasses == {"Worker", "Manager"}

\* the class tag a piece of a split reference names; one token is one class name
Tag(piece) == IF Len(piece) = 1 THEN piece[1] ELSE "undefined"

\* (new objects[cls]()).load(id, db): the instance, null when no row matches;
\* `new` of a class that is not registered throws
LoadObject(cls, id) ==
  IF cls \notin RegisteredClasses THEN Thrown
  ELSE IF <<cls, id>> \in StoredObjects THEN Inst(cls, id) ELSE Null

\* saveTransform of the scalar descriptors
ScalarSaveTransform(x, type) ==
  CASE type = "bit" ->
         IF x = Null THEN Thrown
         ELSE IF Len(x.v) > 0 THEN ParseIntRadix2(JoinBytes(x.v, <<>>)) ELSE Num(0)
    [] type = "date" -> IF Truthy(x) THEN Str(FormatDate(x)) ELSE Null
    [] type \in {"timestamp", "datetime"} -> IF Truthy(x) THEN Str(FormatDateTime(x)) ELSE Null
    [] type \in BufferTypes \ {"bit"} -> IF x = Null THEN Thrown ELSE Str(BufferToString(x.v))
    [] type = "set" -> IF x = Null THEN Thrown ELSE Str(Join(x.v, Comma))
    [] type = "boolean" -> IF Truthy(x) THEN Num(10) ELSE Num(0)
    [] type = "object" -> IF x = Null THEN Str(<<"n", "u", "l", "l">>) ELSE Str(<<"{", "}">>)
    [] JsType(type) = "object" -> IF Truthy(x) THEN Str(Reference(x)) ELSE Null
    [] OTHER -> x

\* loadTransform of the scalar descriptors
ScalarLoadTransform(x, type) ==
  CASE type = "bigint" -> ParseInt(x)
    [] type \in DateTypes -> IF Truthy(x) THEN NewDate(x.v) ELSE Null
    [] type \in BufferTypes \ {"bit"} -> IF x.t = "string" THEN Buf(StringToBytes(x.v)) ELSE Thrown
    [] type = "set" -> IF x.t = "string" THEN SetV(Distinct(Split(x.v, Comma))) ELSE Thrown
    [] type = "boolean" -> Bool(Truthy(x))
    [] type = "object" ->
         IF x = Str(<<"{", "}">>) THEN Obj
         ELSE IF x = Str(<<"n", "u", "l", "l">>) THEN Null ELSE Thrown
    [] JsType(type) = "object" ->
         IF ~Truthy(x) THEN Null
         ELSE IF TypeOf(x) = "object" THEN x
         ELSE LET data == Split(x.v, Comma) IN
              IF Len(data) >= 2 /\ ParseIntStr(data[2]) # NaN
              THEN LoadObject(Tag(data[1]), ParseIntStr(data[2]).v \div 10)
              ELSE LoadObject(Tag(data[1]), -1)
    [] OTHER -> x

\* saveTransform of the array descriptor for an element type
ArraySaveTransform(x, elementType) ==
  LET BufferElement(y) == IF y = Null THEN <<>> ELSE JoinBytes(y.v, Pipe)
      DateElement(y) == IF Truthy(y) THEN FormatDate(y) ELSE <<"n", "u", "l", "l">>
      DateTimeElement(y) == IF Truthy(y) THEN FormatDateTime(y) ELSE <<"n", "u", "l", "l">>
      SetElement(y) == IF y = Null THEN <<>> ELSE Join(y.v, Comma)
      BooleanElement(y) == IF Truthy(y) THEN <<"1">> ELSE <<"0">>
      ObjectElement(y) == IF y = Null THEN <<"n", "u", "l", "l">> ELSE <<"{", "}">>
      OtherElement(y) == IF y = Null THEN <<>> ELSE Reference(y)
      ThrowsOnNull == \E i \in 1..Len(x.v) : x.v[i] = Null
  IN
  CASE elementType \in BufferTypes ->
         IF ThrowsOnNull THEN Thrown ELSE Str(Join(Map(BufferElement, x.v), Comma))
    [] elementType \in NumberTypes -> Str(JoinValues(x.v, Comma))
    [] elementType = "date" -> Str(Join(Map(DateElement, x.v), Comma))
    [] elementType = "time" -> Str(JoinValues(x.v, Comma))
    [] elementType \in {"timestamp", "datetime"} -> Str(Join(Map(DateTimeElement, x.v), Comma))
    [] elementType \in StringTypes \ {"time"} -> Str(JoinValues(x.v, TextDelimiter))
    [] elementType = "set" ->
         IF ThrowsOnNull THEN Thrown ELSE Str(Join(Map(SetElement, x.v), TextDelimiter))
    [] elementType = "boolean" -> Str(Join(Map(BooleanElement, x.v), Comma))
    [] elementType = "object" -> Str(<<"[">> \o Join(Map(ObjectElement, x.v), Comma) \o <<"]">>)
    [] OTHER -> IF ThrowsOnNull THEN Thrown ELSE Str(Join(Map(OtherElement, x.v), Pipe))

\* JSON.parse of the text JSON.stringify gives for an array of plain objects
ParseJsonArray(s) ==
  LET inner == SubSeq(s, 2, Len(s) - 1)
      Element(y) == IF y = <<"{", "}">> THEN Obj ELSE Null
  IN IF inner = <<>> THEN Arr(<<>>) ELSE Arr(Map(Element, Split(inner, Comma)))

\* loadTransform of the array descriptor of nested objects, for a string: the
\* regular expression built from x[0]._constructorName matches no constructor,
\* so allObjectsSame holds only for an empty list of parts
LoadArrayOfOther(s) ==
  LET kept == SelectSeq([i \in 1..Len(Split(s, Pipe)) |-> Split(Split(s, Pipe)[i], Comma)],
                        LAMBDA part : part # <<<<>>>>)
      Loaded(part) ==
        IF Len(part) >= 2 /\ ParseIntStr(part[2]) # NaN
        THEN LoadObject(Tag(part[1]), ParseIntStr(part[2]).v \div 10)
        ELSE LoadObject(Tag(part[1]), -1)
  IN IF Len(s) > 0 THEN Arr(Map(Loaded, kept)) ELSE Arr(<<>>)

\* loadTransform of the array descriptor for an element type, applied to a string
ArrayLoadTransform(x, elementType) ==
  LET s == x.v
      BufferElement(y) == Buf(Map(LAMBDA z : IF ParseIntStr(z) = NaN THEN 0 ELSE ParseIntStr(z).v \div 10, Split(y, Pipe)))
      IntegerElement(y) == ParseIntStr(y)
      DecimalElement(y) == ParseFloatStr(y)
      DateElement(y) == IF y # <<"n", "u", "l", "l">> THEN NewDate(y) ELSE Null
      TextElement(y) == Str(y)
      SetElement(y) == SetV(Distinct(Split(y, Comma)))
      BooleanElement(y) == Bool(Truthy(Str(y)))
  IN
  CASE elementType \in BufferTypes ->
         IF s = <<>> THEN Arr(<<>>) ELSE Arr(Map(BufferElement, Split(s, Comma)))
    [] elementType \in NumberTypes \ DecimalTypes ->
         IF s = <<>> THEN Arr(<<>>) ELSE Arr(Map(IntegerElement, Split(s, Comma)))
    [] elementType \in DecimalTypes ->
         IF s = <<>> THEN Arr(<<>>) ELSE Arr(Map(DecimalElement, Split(s, Comma)))
    [] elementType \in DateTypes ->
         IF s = <<>> THEN Arr(<<>>) ELSE Arr(Map(DateElement, Split(s, Comma)))
    [] elementType = "time" -> Arr(Map(TextElement, Split(s, Comma)))
    [] elementType \in StringTypes \ {"time"} ->
         IF s = <<>> THEN Arr(<<>>) ELSE Arr(Map(TextElement, Split(s, TextDelimiter)))
    [] elementType = "set" ->
         IF s = <<>> THEN Arr(<<>>) ELSE Arr(Map(SetElement, Split(s, TextDelimiter)))
    [] elementType = "boolean" ->
         IF s = <<>> THEN Arr(<<>>) ELSE Arr(Map(BooleanElement, Split(s, Comma)))
    [] elementType = "object" -> ParseJsonArray(s)
    [] OTHER -> LoadArrayOfOther(s)

\* property.saveTransform(x, property)
SaveTransform(x, p) ==
  IF p.type = "array" THEN ArraySaveTransform(x, p.arrayOf.type)
  ELSE ScalarSaveTransform(x, p.type)

\* property.loadTransform(x, property, db)
LoadTransform(x, p) ==
  IF x = Thrown THEN Thrown
  ELSE IF p.type = "array" THEN ArrayLoadTransform(x, p.arrayOf.type)
  ELSE ScalarLoadTransform(x, p.type)

-----------------------------------------------------------------------------
(* The codec specification: a stored value is saved, then loaded *)

CodecScalarTypes ==
  {"int", "bigint", "double", "varchar", "text", "time", "boolean", "date",
   "datetime", "bit", "binary", "set", "object", "worker"}
CodecElementTypes ==
  {"int", "double", "varchar", "text", "time", "boolean", "date", "datetime",
   "binary", "set", "object", "worker"}

CodecElements ==
  {Null, Num(10), Num(15), Num(30), StrA, Empty, Bool(TRUE), Bool(FALSE),
   DateV(1, 0), DateV(1, 1), Buf(<<1, 0, 1>>), SetV(<<<<"b">>, <<"a">>>>), Obj, WorkerA}

CodecScalars ==
  CodecElements \cup {Buf(<<>>), Buf(<<200>>), SetV(<<>>), SetV(<<<<"a">>>>), StrNum}

\* the arrays of at most n elements
ArraysUpTo(n) == UNION {{Arr(s) : s \in [1..k -> CodecElements]} : k \in 0..n}

CodecProperties ==
  {ValidatedProperty("p", OriginalType(type), type, NoArrayOf, allowNull, 3, NoDefault) :
     type \in CodecScalarTypes, allowNull \in {"true", "false"}}
  \cup
  {ValidatedProperty("p", "Array", "array",
                     [type |-> type, originalType |-> OriginalType(type),
                      allowNull |-> elementAllowNull, length |-> 3],
                     "false", 0, NoDefault) :
     type \in CodecElementTypes, elementAllowNull \in {"true", "false"}}

\* a property and a value its setter accepts, as the setter stores it
CodecCases ==
  {[p |-> c[1], v |-> PropertySetTransform(c[2], c[1]).val] :
     c \in {d \in CodecProperties \X (CodecScalars \cup ArraysUpTo(MaxLen)) :
              PropertySetTransform(d[2], d[1]).ok}}

CodecInit ==
  /\ codec \in {[pc |-> "set", p |-> c.p, v |-> c.v, stored |-> Undef, loaded |-> Undef] :
                  c \in CodecCases}
  /\ AccIdle
  /\ InhIdle
  /\ DbIdle
  /\ RestIdle

\* insert or update: the stored value goes through saveTransform
CodecSave ==
  /\ codec.pc = "set"
  /\ codec' = [codec EXCEPT !.pc = "saved", !.stored = SaveTransform(codec.v, codec.p)]
  /\ UNCHANGED <<accVars, inhVars, dbVars, restVars>>

\* load: the column goes through loadTransform
CodecLoad ==
  /\ codec.pc = "saved"
  /\ codec' = [codec EXCEPT !.pc = "loaded", !.loaded = LoadTransform(codec.stored, codec.p)]
  /\ UNCHANGED <<accVars, inhVars, dbVars, restVars>>

CodecNext == CodecSave \/ CodecLoad

CodecSpec == CodecInit /\ [][CodecNext]_vars

-----------------------------------------------------------------------------
(* Claims settled against the codec specification *)

\* equality up to the precision the kind's stored form keeps: a date column
\* keeps the calendar day, every other kind keeps the value
SameStored(a, b, type) ==
  IF type = "date" /\ a.t = "Date" /\ b.t = "Date" THEN a.v[1] = b.v[1] ELSE a = b

SameElements(a, b, type) ==
  /\ b.t = "Array"
  /\ Len(a.v) = Len(b.v)
  /\ \A i \in 1..Len(a.v) : SameStored(a.v[i], b.v[i], type)

\* C8: for an array of integer, decimal, boolean, text or date elements and
\* every non-empty array v the setter accepts, loadTransform(saveTransform(v))
\* equals v element by element and in order; and the stored form of an array
\* of integers is its elements joined by commas.
C8_ArrayRoundTrip ==
  (/\ codec.pc = "loaded"
   /\ codec.p.type = "array"
   /\ codec.p.arrayOf.type \in {"int", "double", "boolean", "varchar", "text", "date"}
   /\ codec.v.v # <<>>)
    => /\ SameElements(codec.v, codec.loaded, codec.p.arrayOf.type)
       /\ codec.p.arrayOf.type = "int" => codec.stored = Str(JoinValues(codec.v.v, Comma))

\* C9: for every array kind, loadTransform(saveTransform([])) is the empty
\* array, never null and never an array with one element.
C9_EmptyArrayRoundTrip ==
  (codec.pc = "loaded" /\ codec.p.type = "array" /\ codec.v = Arr(<<>>))
    => codec.loaded = Arr(<<>>)

\* C10: for every scalar kind and every value v its setter accepts,
\* loadTransform(saveTransform(v)) equals v; a set keeps its members and
\* their insertion order.
C10_ScalarRoundTrip ==
  (/\ codec.pc = "loaded"
   /\ codec.p.type \in CodecScalarTypes \ {"object", "worker"})
    => SameStored(codec.v, codec.loaded, codec.p.type)

-----------------------------------------------------------------------------
(* Inheritance: a chain of generated classes, root first, and one instance of
   the last class of the chain *)

InhNames == {"a", "b"}

Declared(name, type) ==
  ValidatedProperty(name, OriginalType(type), type, NoArrayOf, "unset", 3, NoDefault)

InhDeclarations == {Declared("a", "int"), Declared("a", "varchar"), Declared("b", "int")}

\* obj.properties of one class: no name twice within a class
PropertyLists ==
  UNION {{s \in [1..k -> InhDeclarations] :
            \A i, j \in 1..k : i # j => s[i].name # s[j].name} :
         k \in 0..Cardinality(InhNames)}

\* the class configurations of a chain: className is the position in the
\* chain, and the class at position k > 1 extends the class at k - 1
Chains ==
  UNION {{[k \in 1..n |-> [className |-> k, properties |-> c[k]]] :
            c \in [1..n -> PropertyLists]} : n \in 1..MaxDepth}

NoData == [plain |-> Undef, underscored |-> Undef]

\* seed objects: data[name] and data[`_${name}`] for each name
InhSeeds ==
  {[a |-> NoData, b |-> NoData],
   [a |-> [plain |-> Num(50), underscored |-> Undef], b |-> NoData],
   [a |-> [plain |-> StrA, underscored |-> Undef],
    b |-> [plain |-> Undef, underscored |-> Num(10)]],
   [a |-> NoData, b |-> [plain |-> StrA, underscored |-> Undef]]}

\* a constructor that calls this.init(data) whatever this.constructor.name is
ConstructorInitsUnguarded(c) == [k \in 1..Len(c) |-> k]

\* the classes of the chain whose constructor calls this.init(data) when the
\* last class is instantiated: each constructor runs after super(data)
\* returns, and calls init only if this.constructor.name is its own className
ConstructorInits(c) ==
  SelectSeq([k \in 1..Len(c) |-> k], LAMBDA k : c[Len(c)].className = c[k].className)

\* this[name]: the accessor found first on the prototype chain, that of the
\* last class declaring the name
Resolve(c, name) ==
  LET k == CHOOSE k \in 1..Len(c) :
             /\ \E i \in 1..Len(c[k].properties) : c[k].properties[i].name = name
             /\ \A l \in (k + 1)..Len(c) :
                  \A i \in 1..Len(c[l].properties) : c[l].properties[i].name # name
      i == CHOOSE i \in 1..Len(c[k].properties) : c[k].properties[i].name = name
  IN [level |-> k, property |-> c[k].properties[i]]

\* this.init(data) has called super.init(data) up to the root, whose loop
\* over obj.properties runs first
EnterInit(data, runs) ==
  [pc |-> "running", runs |-> runs, level |-> 1, index |-> 1, data |-> data]

InhInit ==
  /\ chain \in Chains
  /\ fields = [n \in InhNames |-> Undef]
  /\ setLog = <<>>
  /\ initState = [pc |-> "new", runs |-> <<>>, level |-> 0, index |-> 0,
                  data |-> [n \in InhNames |-> NoData]]
  /\ AccIdle
  /\ DbIdle
  /\ CodecIdle
  /\ RestIdle

\* new LastClass(data): the constructors of the chain run root-first; those
\* whose guard holds call this.init(data)
New(data) ==
  /\ initState.pc = "new"
  /\ setLog' = <<>>
  /\ initState' = EnterInit(data, ConstructorInits(chain))
  /\ UNCHANGED <<chain, fields, accVars, dbVars, codec, restVars>>

\* instance.init(data) on a constructed instance
Reinit(data) ==
  /\ initState.pc = "done"
  /\ setLog' = <<>>
  /\ initState' = EnterInit(data, <<Len(chain)>>)
  /\ UNCHANGED <<chain, fields, accVars, dbVars, codec, restVars>>

\* one turn of obj.properties.forEach in the init of the class at
\* initState.level: this[property.name](argument); a TypeError of the setter
\* leaves init, and the constructor
InitProperty ==
  /\ initState.pc = "running"
  /\ initState.index <= Len(chain[initState.level].properties)
  /\ LET p == chain[initState.level].properties[initState.index]
         accessor == Resolve(chain, p.name)
         r == AccessorCall(<<InitArgument(initState.data[p.name], p)>>,
                           fields[p.name], accessor.property)
     IN /\ setLog' = Append(setLog, [level |-> initState.level,
                                     index |-> initState.index,
                                     name |-> p.name,
                                     accessor |-> accessor.level])
        /\ fields' = [fields EXCEPT ![p.name] = r.slot]
        /\ initState' = IF r.status = "ok"
                        THEN [initState EXCEPT !.index = initState.index + 1]
                        ELSE [initState EXCEPT !.pc = "thrown"]
  /\ UNCHANGED <<chain, accVars, dbVars, codec, restVars>>

\* the forEach of one class is over: super.init(data) returns to the init of
\* the next class; the init of the last class returns to its caller
InitReturn ==
  /\ initState.pc = "running"
  /\ initState.index > Len(chain[initState.level].properties)
  /\ initState' =
       IF initState.level < Len(chain)
       THEN [initState EXCEPT !.level = initState.level + 1, !.index = 1]
       ELSE IF Len(initState.runs) > 1
       THEN EnterInit(initState.data, Tail(initState.runs))
       ELSE [initState EXCEPT !.pc = "done", !.runs = <<>>]
  /\ UNCHANGED <<chain, fields, setLog, accVars, dbVars, codec, restVars>>

InhNext ==
  \/ \E data \in InhSeeds : New(data)
  \/ \E data \in InhSeeds : Reinit(data)
  \/ InitProperty
  \/ InitReturn

InhSpec == InhInit /\ [][InhNext]_vars

-----------------------------------------------------------------------------
(* Claims settled against the inheritance specification *)

\* the setter call init made for one declared property came before another
Before(x, y) ==
  \/ x.level < y.level
  \/ x.level = y.level /\ x.index < y.index

-----------------------------------------------------------------------------
(* Persistence: a table-bound class with the properties id and label, one
   instance of it, and the query service its methods are given *)

IdProperty == ValidatedProperty("id", "int", "int", NoArrayOf, "unset", 0, NoDefault)
LabelProperty == ValidatedProperty("label", "text", "text", NoArrayOf, "unset", 0, NoDefault)

\* obj.properties, in declaration order
DbProperties == <<IdProperty, LabelProperty>>

DbNames == {DbProperties[i].name : i \in 1..Len(DbProperties)}

\* the properties insert and update walk: stored, and `id` left out; load
\* walks every stored property
StoredProperties(withId) == SelectSeq(DbProperties, LAMBDA p : withId \/ p.name # "id")

ColumnNames(properties) == [i \in 1..Len(properties) |-> properties[i].name]

\* this.init() without data: every property through its setter, from its default
InitDefaults(instance) ==
  [n \in DbNames |->
     LET p == CHOOSE q \in {DbProperties[i] : i \in 1..Len(DbProperties)} : q.name = n
     IN AccessorCall(<<InitArgument(NoData, p)>>, instance[n], p).slot]

\* the params array of insert: saveTransform of each getter's value
InsertParams(instance) ==
  LET properties == StoredProperties(FALSE) IN
  [i \in 1..Len(properties) |->
     SaveTransform(AccessorCall(<<>>, instance[properties[i].name], properties[i]).val,
                   properties[i])]

\* an update that puts the identity first in its params array
UpdateParamsIdFirst(instance) ==
  <<AccessorCall(<<>>, instance.id, IdProperty).val>> \o InsertParams(instance)

\* the params array of update: the saved values, then this.id() for the WHERE
UpdateParams(instance) ==
  InsertParams(instance) \o <<AccessorCall(<<>>, instance.id, IdProperty).val>>

\* the service answers `INSERT INTO t (columns) VALUES (params)`: it keeps a
\* row under the next identity and returns that identity as insertId
ServiceInsert(rows, next, columns, params) ==
  LET row == [n \in DbNames |->
                IF n = "id" THEN Num(10 * next)
                ELSE IF \E i \in 1..Len(columns) : columns[i] = n
                THEN params[CHOOSE i \in 1..Len(columns) : columns[i] = n]
                ELSE Null]
  IN [rows |-> Append(rows, row), insertId |-> Num(10 * next)]

\* the service answers `UPDATE t SET column = ?, ... WHERE id = ?`
ServiceUpdate(rows, columns, params) ==
  [r \in 1..Len(rows) |->
     IF rows[r].id # params[Len(params)] THEN rows[r]
     ELSE [n \in DbNames |->
             IF \E i \in 1..Len(columns) : columns[i] = n
             THEN params[CHOOSE i \in 1..Len(columns) : columns[i] = n]
             ELSE rows[r][n]]]

\* the service answers `SELECT columns FROM t WHERE id = ?`
ServiceSelect(rows, id) == SelectSeq(rows, LAMBDA r : r.id = id)

\* load(arg1, db) with a number: this.init(), the query, null when no row
\* came back, else every stored property through loadTransform and its setter
Load(instance, arg1, rows) ==
  LET initial == InitDefaults(instance)
      found == ServiceSelect(rows, arg1)
      properties == StoredProperties(TRUE)
  IN IF found = <<>> THEN [returned |-> Null, instance |-> initial]
     ELSE [returned |-> This,
           instance |->
             [n \in DbNames |->
                IF \E i \in 1..Len(properties) : properties[i].name = n
                THEN LET p == properties[CHOOSE i \in 1..Len(properties) :
                                           properties[i].name = n]
                     IN AccessorCall(<<LoadTransform(found[1][n], p)>>, initial[n], p).slot
                ELSE initial[n]]]

LabelValues == {StrA, Empty, Num(10), Null}
Identities == {Num(10 * k) : k \in 0..(MaxRows + 1)}
NoUpdate == [inserted |-> Undef, updated |-> FALSE, label |-> Undef]

DbInit ==
  /\ table = <<>>
  /\ nextId = 1
  /\ obj = InitDefaults([n \in DbNames |-> Undef])
  /\ fresh = Undef
  /\ dbCall = [name |-> "new", arg |-> Undef, before |-> Undef, returned |-> Undef]
  /\ sinceUpdate = NoUpdate
  /\ AccIdle
  /\ InhIdle
  /\ CodecIdle
  /\ RestIdle

\* instance.label(v)
SetLabel(v) ==
  LET r == AccessorCall(<<v>>, obj.label, LabelProperty) IN
  /\ obj' = [obj EXCEPT !.label = r.slot]
  /\ dbCall' = [name |-> "label", arg |-> v, before |-> obj,
                returned |-> IF r.status = "ok" THEN This ELSE Thrown]
  /\ UNCHANGED <<table, nextId, fresh, sinceUpdate, accVars, inhVars, codec, restVars>>

\* await instance.insert(db): the query, then this.id(result.insertId)
Insert ==
  LET answer == ServiceInsert(table, nextId, ColumnNames(StoredProperties(FALSE)),
                              InsertParams(obj))
  IN /\ Len(table) < MaxRows
     /\ table' = answer.rows
     /\ nextId' = nextId + 1
     /\ obj' = [obj EXCEPT !.id = AccessorCall(<<answer.insertId>>, obj.id, IdProperty).slot]
     /\ dbCall' = [name |-> "insert", arg |-> Undef, before |-> obj,
                   returned |-> answer.insertId]
     /\ sinceUpdate' = [inserted |-> answer.insertId, updated |-> FALSE, label |-> Undef]
     /\ UNCHANGED <<fresh, accVars, inhVars, codec, restVars>>

\* await instance.update(db)
Update ==
  /\ table' = ServiceUpdate(table, ColumnNames(StoredProperties(FALSE)), UpdateParams(obj))
  /\ dbCall' = [name |-> "update", arg |-> Undef, before |-> obj, returned |-> This]
  /\ sinceUpdate' = IF sinceUpdate.inserted = Undef THEN sinceUpdate
                    ELSE [sinceUpdate EXCEPT !.updated = TRUE, !.label = obj.label]
  /\ UNCHANGED <<nextId, obj, fresh, accVars, inhVars, codec, restVars>>

\* await instance.load(id, db) on the instance itself
LoadSelf(id) ==
  LET r == Load(obj, id, table) IN
  /\ obj' = r.instance
  /\ dbCall' = [name |-> "load", arg |-> id, before |-> obj, returned |-> r.returned]
  /\ sinceUpdate' = NoUpdate
  /\ UNCHANGED <<table, nextId, fresh, accVars, inhVars, codec, restVars>>

\* await new MyObject().load(id, db): what the caller gets back
LoadFresh(id) ==
  LET r == Load(InitDefaults([n \in DbNames |-> Undef]), id, table) IN
  /\ fresh' = IF r.returned = Null THEN Null ELSE r.instance
  /\ dbCall' = [name |-> "loadFresh", arg |-> id, before |-> obj, returned |-> r.returned]
  /\ UNCHANGED <<table, nextId, obj, sinceUpdate, accVars, inhVars, codec, restVars>>

DbNext ==
  \/ \E v \in LabelValues : SetLabel(v)
  \/ Insert
  \/ Update
  \/ \E id \in Identities : LoadSelf(id)
  \/ \E id \in Identities : LoadFresh(id)

DbSpec == DbInit /\ [][DbNext]_vars

-----------------------------------------------------------------------------
(* Claims settled against the persistence specification *)

\* C5: load(id, service) for an identity that matches no row resolves to null
\* and leaves every property of the calling instance as it was before the call.
C5_LoadMissLeavesInstance ==
  (dbCall.name = "load" /\ ServiceSelect(table, dbCall.arg) = <<>>)
    => (dbCall.returned = Null /\ obj = dbCall.before)

\* C6: after insert, id() is the positive identity the service returned; and
\* once label sets and at least one update have followed the insert, load of
\* that identity on a fresh instance returns the instance with the label of the
\* most recent update and the inserted identity.
C6_InsertUpdateLoad ==
  /\ dbCall.name = "insert" => (obj.id = dbCall.returned /\ obj.id.v > 0)
  /\ (dbCall.name = "loadFresh" /\ sinceUpdate.updated /\ dbCall.arg = sinceUpdate.inserted)
       => /\ dbCall.returned = This
          /\ fresh # Null
          /\ fresh.id = sinceUpdate.inserted
          /\ fresh.id = obj.id
          /\ fresh.label = sinceUpdate.label

\* a fresh load after the second insert, a label set and an update: the label
\* loaded is the one last set, which is not the default
C6_Witness ==
  /\ dbCall.name = "loadFresh"
  /\ sinceUpdate.updated
  /\ dbCall.arg = sinceUpdate.inserted
  /\ Len(table) = 2
  /\ dbCall.arg = Num(20)
  /\ fresh # Null
  /\ fresh.label = StrA
  /\ table[1].label # StrA

-----------------------------------------------------------------------------
(* Nested objects: the transforms of a property holding generated instances,
   and the queries their loads issue on the service *)

\* `SELECT ... FROM <table of cls> WHERE id = ?` with [id], as load(id, db) of
\* class cls issues it
SelectById(cls, id) == [statement |-> "select", table |-> cls, ids |-> <<id>>]

\* `SELECT * FROM ${tableName} WHERE id IN (?)` with [objectIds]
SelectIn(tableName, objectIds) == [statement |-> "select in", table |-> tableName, ids |-> objectIds]

\* parseInt(data[1]) of a split reference; data[1] may be missing
ReferenceId(data) == IF Len(data) >= 2 THEN ParseIntStr(data[2]) ELSE NaN

\* the queries the loadTransform of a nested-object property issues for x:
\* none for a falsy x or an object, else the one query of load(id, db)
ScalarLoadQueries(x, type) ==
  IF JsType(type) = "object" /\ Truthy(x) /\ TypeOf(x) = "string"
  THEN <<SelectById(Tag(Split(x.v, Comma)[1]), ReferenceId(Split(x.v, Comma)))>>
  ELSE <<>>

\* the queries the loadTransform of an array of nested objects issues for the
\* string s: allObjectsSame holds only when no part is left, and then the one
\* query is on the table of the property's own class
ArrayLoadQueries(s, tableName) ==
  LET kept == SelectSeq([i \in 1..Len(Split(s, Pipe)) |-> Split(Split(s, Pipe)[i], Comma)],
                        LAMBDA part : part # <<<<>>>>)
  IN IF Len(s) = 0 THEN <<>>
     ELSE IF kept = <<>> THEN <<SelectIn(tableName, <<>>)>>
     ELSE [i \in 1..Len(kept) |-> SelectById(Tag(kept[i][1]), ReferenceId(kept[i]))]

\* the queries of property.loadTransform(x, property, db, tableName)
LoadQueries(x, p, tableName) ==
  IF p.type = "array"
  THEN (IF JsType(p.arrayOf.type) = "object" /\ TypeOf(x) = "string"
        THEN ArrayLoadQueries(x.v, tableName) ELSE <<>>)
  ELSE ScalarLoadQueries(x, p.type)

NestedClasses == RegisteredClasses
NestedInstances == {Inst(cls, id) : cls \in NestedClasses, id \in 0..2}

\* a property of class `Owner` holding one nested object, and one holding a
\* list of them; both take every class of NestedClasses (instanceOf a common base)
NestedProperty ==
  ValidatedProperty("p", "Person", "person", NoArrayOf, "unset", 0, NoDefault)
NestedArrayProperty ==
  ValidatedProperty("p", "Array", "array",
                    [type |-> "person", originalType |-> "Person",
                     allowNull |-> "unset", length |-> 0],
                    "unset", 0, NoDefault)

NestedCases ==
  {[p |-> NestedProperty, v |-> x] : x \in NestedInstances \cup {Null}}
  \cup {[p |-> NestedArrayProperty, v |-> Arr(s)] :
          s \in UNION {[1..k -> NestedInstances] : k \in 0..MaxRefs}}

NestedInit ==
  /\ nested \in {[pc |-> "set", p |-> c.p, v |-> c.v, stored |-> Undef, loaded |-> Undef] :
                   c \in NestedCases}
  /\ queries = <<>>
  /\ config = <<>>
  /\ json = <<>>
  /\ MoreIdle
  /\ AccIdle
  /\ InhIdle
  /\ DbIdle
  /\ CodecIdle

\* insert or update of the owner: property.saveTransform(this.p(), property)
NestedSave ==
  /\ nested.pc = "set"
  /\ nested' = [nested EXCEPT !.pc = "saved", !.stored = SaveTransform(nested.v, nested.p)]
  /\ UNCHANGED <<queries, config, json, accVars, inhVars, dbVars, codec, moreVars>>

\* load of the owner: await property.loadTransform(column, property, db, tableName)
NestedLoad ==
  /\ nested.pc = "saved"
  /\ nested' = [nested EXCEPT !.pc = "loaded",
                              !.loaded = LoadTransform(nested.stored, nested.p)]
  /\ queries' = queries \o LoadQueries(nested.stored, nested.p, "Owner")
  /\ UNCHANGED <<config, json, accVars, inhVars, dbVars, codec, moreVars>>

NestedNext == NestedSave \/ NestedLoad

NestedSpec == NestedInit /\ [][NestedNext]_vars

-----------------------------------------------------------------------------
(* Claims settled against the nested-object specification *)

C12_BatchedLookup ==
  (nested.pc = "loaded" /\ nested.p.type = "array" /\ Len(nested.v.v) >= 2) =>
    LET elems == nested.v.v
        ids == [i \in 1..Len(elems) |-> Num(10 * elems[i].v[2])]
    IN IF \A i \in 1..Len(elems) : elems[i].v[1] = elems[1].v[1]
       THEN /\ queries = <<SelectIn(elems[1].v[1], ids)>>
            /\ Len(nested.loaded.v) = Len(elems)
       ELSE Len(queries) = Len(elems)

-----------------------------------------------------------------------------
(* The persistence methods with their argument checks, against a service
   whose query may fail *)

\* the query service object handed to the methods
Service == [t |-> "Service", v |-> 0]

\* how a call can end besides returning
InvalidSignature == [t |-> "TypeError: Invalid signature", v |-> 0]
ConfigError == [t |-> "Error", v |-> 0]
QueryFailure == [t |-> "QueryFailure", v |-> 0]

\* a row handed to load as its first argument
RowData(id, label) == [t |-> "RowDataPacket", v |-> [id |-> id, label |-> label]]

\* the service answers `DELETE FROM t WHERE id = ?`
ServiceDelete(rows, id) == SelectSeq(rows, LAMBDA r : r.id # id)

\* what a call leaves: the instance, the table, the queries it issued, and
\* what the caller gets (a value, or what the promise failed with)
Ended(instance, rows, next, issued, returned) ==
  [instance |-> instance, rows |-> rows, next |-> next, issued |-> issued,
   returned |-> returned]

\* await instance.delete(db)
DeleteCall(instance, db, rows, next, answers) ==
  LET id == AccessorCall(<<>>, instance.id, IdProperty).val
      query == [statement |-> "delete", table |-> "t", ids |-> <<id>>]
  IN IF TypeOf(db) # "object" THEN Ended(instance, rows, next, <<>>, InvalidSignature)
     ELSE IF db = Null THEN Ended(instance, rows, next, <<>>, Thrown)
     ELSE IF ~answers THEN Ended(instance, rows, next, <<query>>, QueryFailure)
     ELSE Ended(instance, ServiceDelete(rows, id), next, <<query>>, This)

\* an insert that would try its query again after a failure and keep the
\* identity of the second attempt
InsertCallRetry(instance, arg1, rows, next, answers) ==
  LET query == [statement |-> "insert", table |-> "t", ids |-> <<>>]
      answer == ServiceInsert(rows, next, ColumnNames(StoredProperties(FALSE)),
                              InsertParams(instance))
  IN IF TypeOf(arg1) # "object" THEN Ended(instance, rows, next, <<>>, InvalidSignature)
     ELSE IF arg1 = Null THEN Ended(instance, rows, next, <<>>, Thrown)
     ELSE Ended([instance EXCEPT !.id =
                   AccessorCall(<<answer.insertId>>, instance.id, IdProperty).slot],
                answer.rows, next + 1,
                IF answers THEN <<query>> ELSE <<query, query>>, This)

\* await instance.insert(arg1), outside a browser
InsertCall(instance, arg1, rows, next, answers) ==
  LET params == InsertParams(instance)
      query == [statement |-> "insert", table |-> "t", ids |-> <<>>]
      answer == ServiceInsert(rows, next, ColumnNames(StoredProperties(FALSE)), params)
  IN IF TypeOf(arg1) # "object" THEN Ended(instance, rows, next, <<>>, InvalidSignature)
     ELSE IF arg1 = Null THEN Ended(instance, rows, next, <<>>, Thrown)
     ELSE IF ~answers THEN Ended(instance, rows, next, <<query>>, QueryFailure)
     ELSE Ended([instance EXCEPT !.id =
                   AccessorCall(<<answer.insertId>>, instance.id, IdProperty).slot],
                answer.rows, next + 1, <<query>>, This)

\* await instance.update(arg1), outside a browser
UpdateCall(instance, arg1, rows, next, answers) ==
  LET params == UpdateParams(instance)
      query == [statement |-> "update", table |-> "t", ids |-> <<params[Len(params)]>>]
  IN IF TypeOf(arg1) # "object" THEN Ended(instance, rows, next, <<>>, InvalidSignature)
     ELSE IF arg1 = Null THEN Ended(instance, rows, next, <<>>, Thrown)
     ELSE IF ~answers THEN Ended(instance, rows, next, <<query>>, QueryFailure)
     ELSE Ended(instance,
                ServiceUpdate(rows, ColumnNames(StoredProperties(FALSE)), params),
                next, <<query>>, This)

\* load with a row as its first argument: every stored property the row
\* defines goes through its setter, an object as it is, anything else through
\* loadTransform
LoadRow(initial, row) ==
  [n \in DbNames |->
     LET p == CHOOSE q \in {DbProperties[i] : i \in 1..Len(DbProperties)} : q.name = n
     IN IF row[n] = Undef THEN initial[n]
        ELSE IF TypeOf(row[n]) = "object"
        THEN AccessorCall(<<row[n]>>, initial[n], p).slot
        ELSE AccessorCall(<<LoadTransform(row[n], p)>>, initial[n], p).slot]

\* await instance.load(arg1, db), for a class without otherSearchProperty and
\* without url: this.init() comes first, whatever the arguments are
LoadCall(instance, arg1, db, rows, next, answers) ==
  LET initial == InitDefaults(instance)
      query == SelectById("t", arg1)
  IN IF TypeOf(arg1) \in {"number", "string"} /\ TypeOf(db) = "object"
     THEN (IF TypeOf(arg1) = "string" THEN Ended(initial, rows, next, <<>>, ConfigError)
           ELSE IF db = Null THEN Ended(initial, rows, next, <<>>, Thrown)
           ELSE IF ~answers THEN Ended(initial, rows, next, <<query>>, QueryFailure)
           ELSE Ended(Load(instance, arg1, rows).instance, rows, next, <<query>>,
                      Load(instance, arg1, rows).returned))
     ELSE IF TypeOf(arg1) \in {"number", "string"}
     THEN Ended(initial, rows, next, <<>>, ConfigError)
     ELSE IF arg1 = Null THEN Ended(initial, rows, next, <<>>, Thrown)
     ELSE IF TypeOf(arg1) = "object" /\ arg1.t = "RowDataPacket"
     THEN Ended(LoadRow(initial, arg1.v), rows, next, <<>>, This)
     ELSE Ended(initial, rows, next, <<>>, InvalidSignature)

\* what the methods are handed as the service, and as load's selector
ServiceArguments == {Service, Num(10), StrA, Undef, Null}
Selectors ==
  {Num(10), Num(10 * (MaxRows + 1)), StrA, Bool(TRUE), Undef, Null, Arr(<<>>),
   RowData(Num(20), StrA), RowData(Undef, StrA)}
SvcLabels == {StrA, Null}

SvcInit ==
  /\ table = <<>>
  /\ nextId = 1
  /\ obj = InitDefaults([n \in DbNames |-> Undef])
  /\ fresh = Undef
  /\ dbCall = [name |-> "new", arg |-> Undef, db |-> Undef, answers |-> TRUE,
               before |-> Undef, returned |-> Undef]
  /\ sinceUpdate = NoUpdate
  /\ queries = <<>>
  /\ nested = <<>>
  /\ config = <<>>
  /\ json = <<>>
  /\ MoreIdle
  /\ AccIdle
  /\ InhIdle
  /\ CodecIdle

\* the state a call leaves behind
SvcEnd(name, arg1, db, answers, end) ==
  /\ obj' = end.instance
  /\ table' = end.rows
  /\ nextId' = end.next
  /\ queries' = end.issued
  /\ dbCall' = [name |-> name, arg |-> arg1, db |-> db, answers |-> answers,
                before |-> obj, returned |-> end.returned]
  /\ UNCHANGED <<fresh, sinceUpdate, nested, config, json, accVars, inhVars, codec, moreVars>>

SvcInsert ==
  \E db \in ServiceArguments, answers \in BOOLEAN :
    /\ nextId <= MaxRows
    /\ SvcEnd("insert", Undef, db, answers, InsertCall(obj, db, table, nextId, answers))

SvcUpdate ==
  \E db \in ServiceArguments, answers \in BOOLEAN :
    SvcEnd("update", Undef, db, answers, UpdateCall(obj, db, table, nextId, answers))

SvcDelete ==
  \E db \in ServiceArguments, answers \in BOOLEAN :
    SvcEnd("delete", Undef, db, answers, DeleteCall(obj, db, table, nextId, answers))

SvcLoad ==
  \E arg1 \in Selectors, db \in ServiceArguments, answers \in BOOLEAN :
    SvcEnd("load", arg1, db, answers, LoadCall(obj, arg1, db, table, nextId, answers))

SvcNext ==
  \/ \E v \in SvcLabels : SetLabel(v)
  \/ SvcInsert
  \/ SvcUpdate
  \/ SvcDelete
  \/ SvcLoad

SvcSpec == SvcInit /\ [][SvcNext]_vars

\* C13: when the service's query fails during insert, update or delete, the
\* call fails with that failure, that one query is the only one issued, and
\* every property of the instance, id included, is what it was before the call
C13_ServiceFailurePassesThrough ==
  (/\ dbCall.name \in {"insert", "update", "delete"}
   /\ dbCall.db = Service
   /\ ~dbCall.answers)
    => /\ dbCall.returned = QueryFailure
       /\ Len(queries) = 1
       /\ obj = dbCall.before

\* a failed insert on an instance whose label was set and whose table has a row
C13_Witness ==
  /\ dbCall.name = "insert"
  /\ dbCall.db = Service
  /\ ~dbCall.answers
  /\ dbCall.returned = QueryFailure
  /\ obj.label = StrA
  /\ Len(table) = 1

\* C14: delete, insert, update or load with a service argument that is a
\* number, a string, undefined or null, or load with a selector that is
\* neither a number, a string nor a plain row, fails with the
\* invalid-signature TypeError, issues no query, and leaves the instance as
\* it was
C14_InvalidSignature ==
  (/\ dbCall.name \in {"insert", "update", "delete", "load"}
   /\ \/ dbCall.db # Service
      \/ /\ dbCall.name = "load"
         /\ TypeOf(dbCall.arg) \notin {"number", "string"}
         /\ dbCall.arg.t # "RowDataPacket")
    => /\ dbCall.returned = InvalidSignature
       /\ queries = <<>>
       /\ obj = dbCall.before

-----------------------------------------------------------------------------
(* Text lengths and numeric coercion, over the accessor specification *)

\* C15: a text property configured with a length L, `char` as well as
\* `varchar`, never holds a string longer than L: a set with a longer input
\* keeps its first L characters, and a number is stored as its string form
C15_TextLengthTruncation ==
  (Constructed /\ property.type \in {"char", "varchar"})
    => /\ slot.t = "string" => Len(slot.v) <= property.length
       /\ (/\ call.name = "set"
           /\ TypeOf(call.args[1]) \in {"string", "number"}
           /\ call.args[1] # NaN)
            => /\ result.status = "ok"
               /\ slot = Str(Substr0(JsToString(call.args[1]), property.length))

\* the values C16 calls not numeric: a non-numeric string, the empty string,
\* a boolean, an array, an object
NotNumeric(x) ==
  \/ x.t = "string" /\ (x.v = <<>> \/ NumberStr(x.v) = NaN)
  \/ x.t \in {"boolean", "Array", "Object", "Set", "Buffer"}

\* C16: a numeric property refuses, with TypeError, a non-null value that is
\* not numeric, and holds null (only when allowNull) or a real number, an
\* integer for an integer kind, never NaN
C16_NumericNeverNaN ==
  (Constructed /\ property.type \in NumberTypes)
    => /\ (call.name = "set" /\ NotNumeric(call.args[1]))
            => (result.status = "TypeError" /\ slot = before)
       /\ \/ slot = Null /\ property.allowNull
          \/ /\ slot.t = "number"
             /\ HasDecimals(property.type) \/ slot.v % 10 = 0

-----------------------------------------------------------------------------
(* Validation of configurations *)

\* a configuration key the caller left out
NotGiven == "unset"
ConfigurationError == [ok |-> FALSE, error |-> "Error"]

\* String.prototype.toLowerCase over the type names that occur
ToLowerCase(s) ==
  CASE s = "Worker" -> "worker"
    [] s = "INT" -> "int"
    [] s = "Int" -> "int"
    [] s = "VarChar" -> "varchar"
    [] s = "Array" -> "array"
    [] s = "DateTime" -> "datetime"
    [] OTHER -> s

\* ezobjectType.lengthRequired
LengthRequired(type) == type \in {"varchar", "varbinary"}

\* a length the configuration gives, and the one it leaves out (isNaN of it)
Length(n) == [given |-> TRUE, n |-> n]
NoLength == [given |-> FALSE, n |-> 0]

\* the length checks of validatePropertyConfig: TRUE when one of them throws
LengthThrows(type, length) ==
  \/ LengthRequired(type) /\ ~length.given
  \/ type \in {"varchar", "varbinary"} /\ length.given /\ (length.n <= 0 \/ length.n > 65535)
  \/ type = "int" /\ length.given /\ (length.n <= 0 \/ length.n > 11)

\* the arrayOf part of validatePropertyConfig, for a property of type array
ValidatedArrayOf(arrayOf) ==
  [type |-> ToLowerCase(arrayOf.type),
   originalType |-> arrayOf.type,
   allowNull |-> arrayOf.allowNull,
   length |-> 0]

\* validatePropertyConfig(property): an error, or the property as it is left
ValidatePropertyConfig(raw) ==
  LET type == ToLowerCase(raw.type) IN
  IF raw.name = NotGiven THEN ConfigurationError
  ELSE IF raw.type = NotGiven /\ raw.instanceOf = NotGiven THEN ConfigurationError
  ELSE IF type = "array" /\ ~raw.arrayOf.given THEN ConfigurationError
  ELSE IF type = "array" /\ raw.arrayOf.type = NotGiven /\ raw.arrayOf.instanceOf = NotGiven
  THEN ConfigurationError
  ELSE IF LengthThrows(type, raw.length) THEN ConfigurationError
  ELSE [ok |-> TRUE,
        instanceOf |-> ToLowerCase(raw.instanceOf),
        originalInstanceOf |-> raw.instanceOf,
        property |->
          ValidatedProperty(raw.name, raw.type, type,
                            IF type = "array" THEN ValidatedArrayOf(raw.arrayOf) ELSE NoArrayOf,
                            raw.allowNull, raw.length.n, NoDefault)]

\* validateClassConfig(cfg): className, then each property of cfg.properties
ValidateClassConfig(cfg) ==
  IF cfg.className = NotGiven THEN ConfigurationError
  ELSE IF \E i \in 1..Len(cfg.properties) : ~ValidatePropertyConfig(cfg.properties[i]).ok
  THEN ConfigurationError
  ELSE [ok |-> TRUE,
        properties |-> [i \in 1..Len(cfg.properties) |->
                          ValidatePropertyConfig(cfg.properties[i]).property]]

\* validateTableConfig(cfg): tableName, then validateClassConfig
ValidateTableConfig(cfg) ==
  IF cfg.tableName = NotGiven THEN ConfigurationError ELSE ValidateClassConfig(cfg)

\* createClass(cfg) validates with validateClassConfig
CreateClassValidation(cfg) == ValidateClassConfig(cfg)

\* property configurations as a caller writes them
RawProperty(name, type, instanceOf, arrayOf, allowNull, length) ==
  [name |-> name, type |-> type, instanceOf |-> instanceOf, arrayOf |-> arrayOf,
   allowNull |-> allowNull, length |-> length]

RawArrayOf(type, instanceOf, allowNull) ==
  [given |-> TRUE, type |-> type, instanceOf |-> instanceOf, allowNull |-> allowNull]

\* a configuration without arrayOf
NoRawArrayOf ==
  [given |-> FALSE, type |-> NotGiven, instanceOf |-> NotGiven, allowNull |-> "unset"]

MaxProperties == 2

RawTypes == {NotGiven, "int", "INT", "double", "varchar", "text", "boolean", "date",
             "DateTime", "timestamp", "set", "Worker"}

RawScalars ==
  {RawProperty(name, type, instanceOf, NoRawArrayOf, allowNull, length) :
     name \in {"p", NotGiven}, type \in RawTypes, instanceOf \in {NotGiven, "Worker"},
     allowNull \in {"unset", "true", "false"}, length \in {NoLength, Length(0), Length(2)}}

RawArrays ==
  {RawProperty("p", "Array", NotGiven, arrayOf, allowNull, NoLength) :
     arrayOf \in {NoRawArrayOf} \cup
                 {RawArrayOf(type, instanceOf, elementAllowNull) :
                    type \in {NotGiven, "int", "date", "Worker"},
                    instanceOf \in {NotGiven, "Worker"},
                    elementAllowNull \in {"unset", "true", "false"}},
     allowNull \in {"unset", "true", "false"}}

\* the properties class configurations are made of
ClassProperties ==
  {RawProperty("id", "int", NotGiven, NoRawArrayOf, "unset", NoLength),
   RawProperty("id", "varchar", NotGiven, NoRawArrayOf, "unset", Length(2)),
   RawProperty("label", "varchar", NotGiven, NoRawArrayOf, "unset", Length(2)),
   RawProperty("label", NotGiven, NotGiven, NoRawArrayOf, "unset", NoLength)}

PropertyListsUpTo(n) == UNION {[1..k -> ClassProperties] : k \in 0..n}

\* a parent configuration reached through extendsConfig, or none
NoExtendsConfig == [given |-> FALSE, className |-> NotGiven, properties |-> <<>>]
ExtendsConfigs ==
  {NoExtendsConfig,
   [given |-> TRUE, className |-> "Base",
    properties |-> <<RawProperty("id", "int", NotGiven, NoRawArrayOf, "unset", NoLength)>>],
   [given |-> TRUE, className |-> "Base", properties |-> <<>>]}

ClassConfigs ==
  {[className |-> className, tableName |-> tableName, extendsConfig |-> extendsConfig,
    properties |-> properties] :
     className \in {"Owner", NotGiven}, tableName \in {"t", NotGiven},
     extendsConfig \in ExtendsConfigs, properties \in PropertyListsUpTo(MaxProperties)}

ValInit ==
  /\ config \in {[kind |-> "property", by |-> "none", input |-> raw,
                  outcome |-> ConfigurationError] : raw \in RawScalars \cup RawArrays}
             \cup {[kind |-> "class", by |-> "none", input |-> cfg,
                    outcome |-> ConfigurationError] : cfg \in ClassConfigs}
  /\ queries = <<>>
  /\ nested = <<>>
  /\ json = <<>>
  /\ MoreIdle
  /\ AccIdle
  /\ InhIdle
  /\ DbIdle
  /\ CodecIdle

\* validatePropertyConfig(property)
ValidateProperty ==
  /\ config.kind = "property"
  /\ config.by = "none"
  /\ config' = [config EXCEPT !.by = "validatePropertyConfig",
                              !.outcome = ValidatePropertyConfig(config.input)]
  /\ UNCHANGED <<queries, nested, json, accVars, inhVars, dbVars, codec, moreVars>>

\* validateTableConfig(obj), as createTable calls it
ValidateTable ==
  /\ config.kind = "class"
  /\ config.by = "none"
  /\ config' = [config EXCEPT !.by = "validateTableConfig",
                              !.outcome = ValidateTableConfig(config.input)]
  /\ UNCHANGED <<queries, nested, json, accVars, inhVars, dbVars, codec, moreVars>>

\* createClass(obj)
CreateClass ==
  /\ config.kind = "class"
  /\ config.by = "none"
  /\ config' = [config EXCEPT !.by = "createClass",
                              !.outcome = CreateClassValidation(config.input)]
  /\ UNCHANGED <<queries, nested, json, accVars, inhVars, dbVars, codec, moreVars>>

ValNext ==
  \/ ValidateProperty
  \/ ValidateTable
  \/ CreateClass

ValSpec == ValInit /\ [][ValNext]_vars

\* the kind a validated property resolved to
ResolvedKind(p) == IF p.type = "array" THEN "array" ELSE DescriptorType(p.type)

\* C17: after validatePropertyConfig of a property whose configuration gives
\* no allowNull, allowNull is true for a nested-object kind, any array kind
\* and the date-like kinds, false for every other kind; an allowNull the
\* caller gave is kept
C17_AllowNullDefault ==
  (config.kind = "property" /\ config.by = "validatePropertyConfig" /\ config.outcome.ok)
    => config.outcome.property.allowNull =
         IF config.input.allowNull # "unset" THEN config.input.allowNull = "true"
         ELSE ResolvedKind(config.outcome.property)
                \in {"other", "array", "date", "datetime", "timestamp"}

\* C18: validatePropertyConfig fails when a property gives neither a type nor
\* an instanceOf, and also when it gives both; it accepts a property only
\* when exactly one of the two is there
C18_TypeXorInstanceOf ==
  (config.kind = "property" /\ config.by = "validatePropertyConfig")
    => /\ (config.input.type = NotGiven) = (config.input.instanceOf = NotGiven)
            => ~config.outcome.ok
       /\ config.outcome.ok
            => (config.input.type = NotGiven) # (config.input.instanceOf = NotGiven)

\* the properties of a class configuration, the inherited ones first
AllProperties(cfg) ==
  (IF ~cfg.extendsConfig.given THEN <<>> ELSE cfg.extendsConfig.properties)
    \o cfg.properties

IntegerKinds == {"tinyint", "smallint", "mediumint", "int", "bigint"}

\* C19: a configuration with a tableName is accepted by validateTableConfig
\* and by createClass only when its properties, the inherited ones included,
\* hold exactly one property named id, of integer kind
C19_TableBoundNeedsId ==
  (/\ config.kind = "class"
   /\ config.by \in {"validateTableConfig", "createClass"}
   /\ config.input.tableName # NotGiven
   /\ config.outcome.ok)
    => LET all == AllProperties(config.input)
           ids == {i \in 1..Len(all) : all[i].name = "id"}
       IN /\ Cardinality(ids) = 1
          /\ \A i \in ids : ToLowerCase(all[i].type) \in IntegerKinds

-----------------------------------------------------------------------------
(* An instance through JSON.stringify and JSON.parse, and back through the
   constructor *)

\* Date.prototype.toISOString: the day, `T`, the time of day, `Z`
ToISOString(d) == FormatDate(d) \o <<"T">> \o NatToStr(d.v[2]) \o <<"Z">>

\* what JSON.stringify writes for a Buffer: {type: 'Buffer', data: [...]}
BufferJson(bytes) == [t |-> "BufferJson", v |-> bytes]

\* JSON.parse(JSON.stringify(x)) of a value that is no array: NaN and an
\* invalid date become null, a Date its ISO string, a Set the empty object, a
\* Buffer its type/data object, an instance the plain object of its
\* underscored fields with _constructorName
JsonScalar(x) ==
  CASE x.t \in {"NaN", "InvalidDate", "undefined"} -> Null
    [] x.t = "Date" -> Str(ToISOString(x))
    [] x.t = "Set" -> Obj
    [] x.t = "Buffer" -> BufferJson(x.v)
    [] x.t = "object" -> Plain(x.v[1], x.v[2])
    [] OTHER -> x

\* JSON.parse(JSON.stringify(x)) of a property value
JsonRoundTrip(x) ==
  IF x.t = "Array" THEN Arr([i \in 1..Len(x.v) |-> JsonScalar(x.v[i])]) ELSE JsonScalar(x)

\* new Class(data) for the parsed structure, whose key for p is `_p`
ConstructFromJson(parsed, p) ==
  AccessorCall(<<InitArgument([plain |-> Undef, underscored |-> parsed], p)>>, Undef, p)

JsonInit ==
  /\ json \in {[pc |-> "instance", p |-> c.p, v |-> c.v, parsed |-> Undef,
                status |-> "none", rebuilt |-> Undef] : c \in CodecCases}
  /\ queries = <<>>
  /\ nested = <<>>
  /\ config = <<>>
  /\ MoreIdle
  /\ AccIdle
  /\ InhIdle
  /\ DbIdle
  /\ CodecIdle

\* JSON.parse(JSON.stringify(instance))
JsonReduce ==
  /\ json.pc = "instance"
  /\ json' = [json EXCEPT !.pc = "parsed", !.parsed = JsonRoundTrip(json.v)]
  /\ UNCHANGED <<queries, nested, config, accVars, inhVars, dbVars, codec, moreVars>>

\* new Class(parsed)
JsonConstruct ==
  LET r == ConstructFromJson(json.parsed, json.p) IN
  /\ json.pc = "parsed"
  /\ json' = [json EXCEPT !.pc = "built", !.status = r.status, !.rebuilt = r.slot]
  /\ UNCHANGED <<queries, nested, config, accVars, inhVars, dbVars, codec, moreVars>>

JsonNext == JsonReduce \/ JsonConstruct

JsonSpec == JsonInit /\ [][JsonNext]_vars

\* C20: for a property of any kind, the instance reduced through
\* JSON.stringify and JSON.parse and handed to the constructor of its class
\* builds without error an instance whose property equals the original's
C20_JsonReconstructs ==
  json.pc = "built" => (json.status = "ok" /\ json.rebuilt = json.v)

-----------------------------------------------------------------------------
(* Objects by reference: the defaults of ezobjectTypes and the slots of the
   instances that receive them *)

MaxInstances == 2
MaxMembers == 2

\* the default objects ezobjectTypes creates once, when the module loads:
\* `new Set()` of the set entry, `{}` of the object entry, `[]` of the array
\* entries
SetDefaultRef == 1
ObjectDefaultRef == 2
ArrayDefaultRef == 3

SharedKinds == {"set", "object", "array"}

\* ezobjectType.default of a kind, as a reference
DefaultRef(kind) ==
  CASE kind = "set" -> SetDefaultRef
    [] kind = "object" -> ObjectDefaultRef
    [] kind = "array" -> ArrayDefaultRef

\* the property of each kind in the class
SharedProperty(kind) ==
  IF kind = "array"
  THEN ValidatedProperty("p", "Array", "array",
                         [type |-> "int", originalType |-> "int",
                          allowNull |-> "unset", length |-> 0],
                         "unset", 0, NoDefault)
  ELSE ValidatedProperty("p", kind, kind, NoArrayOf, "unset", 0, NoDefault)

\* what the setter stores for the object at ref: setTransform hands back the
\* Set or the Object it was given; setArrayTransform builds a new array with
\* x.map, which gets the next reference
StoredRef(objects, ref, kind) == IF kind = "array" THEN Len(objects) + 1 ELSE ref

ObjectsAfterSet(objects, ref, kind) ==
  IF kind = "array" THEN Append(objects, objects[ref]) ELSE objects

\* an instance that was not constructed yet
NoSlots == [k \in SharedKinds |-> 0]

AliasInit ==
  /\ heap = [objects |-> <<<<>>, <<>>, <<>>>>,
             slots |-> [i \in 1..MaxInstances |-> NoSlots],
             added |-> [i \in 1..MaxInstances |-> [k \in SharedKinds |-> <<>>]]]
  /\ conn = <<>>
  /\ statement = <<>>
  /\ loading = <<>>
  /\ registry = <<>>
  /\ queries = <<>>
  /\ nested = <<>>
  /\ config = <<>>
  /\ json = <<>>
  /\ AccIdle
  /\ InhIdle
  /\ DbIdle
  /\ CodecIdle

AliasRest ==
  UNCHANGED <<conn, statement, loading, registry, queries, nested, config, json,
              accVars, inhVars, dbVars, codec>>

\* the three setters of init(), one after the other, each with the default
RECURSIVE InitSlots(_, _, _)
InitSlots(objects, slots, kinds) ==
  IF kinds = {} THEN [objects |-> objects, slots |-> slots]
  ELSE LET k == CHOOSE x \in kinds : TRUE IN
       InitSlots(ObjectsAfterSet(objects, DefaultRef(k), k),
                 [slots EXCEPT ![k] = StoredRef(objects, DefaultRef(k), k)],
                 kinds \ {k})

\* new Class(): init() passes each property's default to its setter
NewInstance(i) ==
  LET r == InitSlots(heap.objects, NoSlots, SharedKinds) IN
  /\ heap.slots[i] = NoSlots
  /\ heap' = [heap EXCEPT !.objects = r.objects, !.slots[i] = r.slots]
  /\ AliasRest

\* instance.p().add(e), instance.p()[e] = true, instance.p().push(e): a change
\* in place of the object the getter returns
MutateInPlace(i, kind, e) ==
  LET ref == heap.slots[i][kind]
      member == IF kind = "array"
                THEN MutationElement(e, SharedProperty(kind)).val
                ELSE e
  IN /\ ref # 0
     /\ Len(heap.objects[ref]) < MaxMembers
     /\ kind = "array" => MutationElement(e, SharedProperty(kind)).ok
     /\ heap' = [heap EXCEPT !.objects[ref] = Append(@, member),
                             !.added[i][kind] = Append(@, member)]
     /\ AliasRest

AliasNext ==
  \/ \E i \in 1..MaxInstances : NewInstance(i)
  \/ \E i \in 1..MaxInstances, kind \in SharedKinds, e \in {Num(10)} :
       MutateInPlace(i, kind, e)

AliasSpec == AliasInit /\ [][AliasNext]_vars

\* C21: for instances constructed without seed values, the value an
\* instance's getter returns holds exactly what was added through that
\* instance: a change in place made through one instance shows neither in
\* another instance nor in the default a later instance receives
C21_PrivateState ==
  \A i \in 1..MaxInstances, kind \in SharedKinds :
    heap.slots[i][kind] # 0
      => heap.objects[heap.slots[i][kind]] = heap.added[i][kind]

-----------------------------------------------------------------------------
(* MySQLConnection (src/mysql-connection.js, first definition): one caller
   that awaits each call, and the driver that calls back *)

MaxCalls == 3

Idle == [op |-> "none", pc |-> "idle", promise |-> "none"]
Started(op, pc) == [op |-> op, pc |-> pc, promise |-> "pending"]

ConnInit ==
  /\ conn = [connection |-> "none", inTransaction |-> FALSE, open |-> FALSE,
             call |-> Idle, calls |-> 0, last |-> Idle]
  /\ heap = <<>>
  /\ statement = <<>>
  /\ loading = <<>>
  /\ registry = <<>>
  /\ queries = <<>>
  /\ nested = <<>>
  /\ config = <<>>
  /\ json = <<>>
  /\ AccIdle
  /\ InhIdle
  /\ DbIdle
  /\ CodecIdle

ConnRest ==
  UNCHANGED <<heap, statement, loading, registry, queries, nested, config, json,
              accVars, inhVars, dbVars, codec>>

\* the executor of query and of begin starts with `if ( !this.conn() ) await
\* this.connect()`; commit and abort go straight to this.conn(), which throws
\* inside the executor when there is no connection, and that rejects
FirstStep(op) ==
  IF op \in {"query", "begin"}
  THEN Started(op, IF conn.connection = "none" THEN "connecting"
                   ELSE IF op = "query" THEN "executing" ELSE "beginning")
  ELSE IF conn.connection = "none" THEN [op |-> op, pc |-> "done", promise |-> "rejected"]
  ELSE Started(op, IF op = "commit" THEN "committing" ELSE "rollingBack")

\* connection.query(...), .begin(), .commit(), .abort(): the promise is made
\* and its executor runs up to the first callback
Call(op) ==
  /\ conn.call = Idle
  /\ conn.calls < MaxCalls
  /\ conn' = [conn EXCEPT !.call = FirstStep(op), !.calls = @ + 1]
  /\ ConnRest

\* connect(): this.conn(mysql.createConnection(...)), then the driver's
\* connect callback.  On err connect's promise rejects, the `await` in the
\* async executor of query/begin throws outside any try, and neither resolve
\* nor reject of the outer promise is ever called
ConnectCallback(err) ==
  /\ conn.call.pc = "connecting"
  /\ conn' = IF err
             THEN [conn EXCEPT !.connection = "failed", !.call.pc = "dead"]
             ELSE [conn EXCEPT !.connection = "open",
                               !.call.pc = IF conn.call.op = "query" THEN "executing"
                                           ELSE "beginning"]
  /\ ConnRest

\* execute(): the callback of this.conn().query(query, params, cb); a query on
\* a connection that never connected fails
QueryCallback(err) ==
  /\ conn.call.pc = "executing"
  /\ conn.connection = "failed" => err
  /\ conn' = IF ~err THEN [conn EXCEPT !.call.pc = "done", !.call.promise = "resolved"]
             ELSE IF conn.inTransaction THEN [conn EXCEPT !.call.pc = "rollingBack"]
             ELSE [conn EXCEPT !.call.pc = "done", !.call.promise = "rejected"]
  /\ ConnRest

\* begin(): the callback of beginTransaction
BeginCallback(err) ==
  /\ conn.call.pc = "beginning"
  /\ conn.connection = "failed" => err
  /\ conn' = IF err THEN [conn EXCEPT !.call.pc = "done", !.call.promise = "rejected"]
             ELSE [conn EXCEPT !.inTransaction = TRUE, !.open = TRUE,
                               !.call.pc = "done", !.call.promise = "resolved"]
  /\ ConnRest

\* commit(): the callback of this.conn().commit
CommitCallback(err) ==
  /\ conn.call.pc = "committing"
  /\ conn.connection = "failed" => err
  /\ conn' = IF err THEN [conn EXCEPT !.call.pc = "rollingBack"]
             ELSE [conn EXCEPT !.open = FALSE,
                               !.call.pc = "done", !.call.promise = "resolved"]
  /\ ConnRest

\* the callback of this.conn().rollback, in abort, commit and execute
RollbackCallback ==
  /\ conn.call.pc = "rollingBack"
  /\ conn' = [conn EXCEPT !.inTransaction = FALSE, !.open = FALSE,
                          !.call.pc = "done",
                          !.call.promise = IF conn.call.op = "abort" THEN "resolved"
                                           ELSE "rejected"]
  /\ ConnRest

\* the caller's await ends
Settled ==
  /\ conn.call.promise \in {"resolved", "rejected"}
  /\ conn' = [conn EXCEPT !.call = Idle, !.last = conn.call]
  /\ ConnRest

\* the `error` event of the connection, between calls: this.conn(null)
ConnectionError ==
  /\ conn.call = Idle
  /\ conn.connection # "none"
  /\ conn' = [conn EXCEPT !.connection = "none", !.open = FALSE]
  /\ ConnRest

ConnCallbacks ==
  \/ \E err \in BOOLEAN : ConnectCallback(err)
  \/ \E err \in BOOLEAN : QueryCallback(err)
  \/ \E err \in BOOLEAN : BeginCallback(err)
  \/ \E err \in BOOLEAN : CommitCallback(err)
  \/ RollbackCallback

ConnNext ==
  \/ \E op \in {"query", "begin", "commit", "abort"} : Call(op)
  \/ ConnCallbacks
  \/ Settled
  \/ ConnectionError

ConnSpec == ConnInit /\ [][ConnNext]_vars

\* the driver calls every callback it was handed
ConnLive == ConnSpec /\ WF_vars(ConnCallbacks)

\* C22: the promise of every call to query settles: resolved with the result,
\* or rejected when the automatic connect or the execution fails; it does
\* not stay pending for ever
C22_QuerySettles ==
  (conn.call.op = "query" /\ conn.call.promise = "pending")
    ~> (conn.call.promise \in {"resolved", "rejected"})

\* C30: between calls inTransaction() is true exactly while a transaction is
\* open, and a failed query rolls back only inside an open transaction
C30_InTransactionTracksOpen ==
  /\ conn.call = Idle => conn.inTransaction = conn.open
  /\ (conn.call.op = "query" /\ conn.call.pc = "rollingBack") => conn.open

-----------------------------------------------------------------------------
(* The statements insert and update hand to the service, for a class with
   a parent configuration, stored and unstored properties *)

\* a validated property with its store flag
Stored(p, store) == [p |-> p, store |-> store]

ColumnId == Stored(ValidatedProperty("id", "int", "int", NoArrayOf, "unset", 0, NoDefault), TRUE)
ColumnLabel ==
  Stored(ValidatedProperty("label", "varchar", "varchar", NoArrayOf, "unset", 3, NoDefault), TRUE)
ColumnFlag ==
  Stored(ValidatedProperty("flag", "boolean", "boolean", NoArrayOf, "unset", 0, NoDefault), TRUE)
ColumnHidden ==
  Stored(ValidatedProperty("hidden", "int", "int", NoArrayOf, "unset", 0, NoDefault), FALSE)

ColumnPool == {ColumnId, ColumnLabel, ColumnFlag, ColumnHidden}
ColumnPoolNames == {c.p.name : c \in ColumnPool}
ColumnNamed(name) == CHOOSE c \in ColumnPool : c.p.name = name

ColumnListsUpTo(n) == UNION {[1..k -> ColumnPool] : k \in 0..n}

\* the configurations from obj up through extendsConfig, written root first
StatementChains ==
  {<<own>> : own \in ColumnListsUpTo(MaxProperties)}
    \cup {<<parent, own>> : parent \in ColumnListsUpTo(MaxProperties),
                            own \in ColumnListsUpTo(MaxProperties)}

\* the values the instance holds
StatementInstances ==
  {[id |-> Num(10), label |-> label, flag |-> Bool(flag), hidden |-> Num(20)] :
     label \in {StrA, Empty}, flag \in BOOLEAN}

\* the propertiesToLoad argument of update, and options.inverse
PropertyFilters ==
  {[names |-> names, inverse |-> inverse] :
     names \in SUBSET {"label", "flag", "id"}, inverse \in BOOLEAN}
NoFilter == [names |-> {}, inverse |-> FALSE]

\* the test that makes a helper skip a property
Skipped(c, filter) ==
  \/ c.p.name = "id" \/ ~c.store
  \/ /\ filter.names # {}
     /\ \/ ~filter.inverse /\ c.p.name \notin filter.names
        \/ filter.inverse /\ c.p.name \in filter.names

\* a helper recurses into obj.extendsConfig first and then runs over
\* obj.properties; these are the properties it does not skip, in its order
RECURSIVE Visited(_, _, _)
Visited(configs, level, filter) ==
  IF level = 0 THEN <<>>
  ELSE Visited(configs, level - 1, filter)
         \o SelectSeq(configs[level], LAMBDA c : ~Skipped(c, filter))

\* the pieces of a list of lists, one after the other
RECURSIVE Flatten(_)
Flatten(lists) == IF lists = <<>> THEN <<>> ELSE lists[1] \o Flatten(Tail(lists))

\* what a helper adds: Piece(property) for each property it visits
Collect(configs, filter, Piece(_)) ==
  LET visited == Visited(configs, Len(configs), filter)
  IN Flatten([i \in 1..Len(visited) |-> Piece(visited[i])])

\* propertyValues: params.push(property.saveTransform(this[property.name](), property))
PropertyValues(configs, instance, filter) ==
  LET Value(c) == <<SaveTransform(AccessorCall(<<>>, instance[c.p.name], c.p).val, c.p)>>
  IN Collect(configs, filter, Value)

\* a propertyNames that would let unstored properties through
PropertyNamesWithUnstored(configs) ==
  LET Piece(c) == <<c.p.name, ", ">>
  IN Collect([l \in 1..Len(configs) |->
                [i \in 1..Len(configs[l]) |-> [configs[l][i] EXCEPT !.store = TRUE]]],
             NoFilter, Piece)

\* propertyNames: query += `${property.name}, `
PropertyNames(configs) ==
  LET Piece(c) == <<c.p.name, ", ">>
  IN Collect(configs, NoFilter, Piece)

\* propertyPlaceholders: query += `?, `
PropertyPlaceholders(configs) ==
  LET Piece(c) == <<"?", ", ">>
  IN Collect(configs, NoFilter, Piece)

\* an update whose SET list would ignore propertiesToLoad
PropertyUpdatesUnfiltered(configs, filter) ==
  LET Piece(c) == <<c.p.name, " = ?", ", ">>
  IN Collect(configs, NoFilter, Piece)

\* propertyUpdates: query += `${property.name} = ?, `
PropertyUpdates(configs, filter) ==
  LET Piece(c) == <<c.p.name, " = ?", ", ">>
  IN Collect(configs, filter, Piece)

\* query.substr(0, query.length - 2): every piece a query can end with here
\* (`, `, ` (`, `T `) is two characters long, so the last piece goes
Trim(query) == SubSeq(query, 1, Len(query) - 1)

\* the query text and the params insert passes to awaitQuery
InsertStatement(configs, instance) ==
  [query |-> Trim(Trim(<<"INSERT INTO t", " (">> \o PropertyNames(configs))
                    \o <<") VALUES", " (">> \o PropertyPlaceholders(configs))
             \o <<")">>,
   params |-> PropertyValues(configs, instance, NoFilter)]

\* the query text and the params update passes to awaitQuery
UpdateStatement(configs, instance, filter) ==
  [query |-> Trim(<<"UPDATE t SE", "T ">> \o PropertyUpdates(configs, filter))
             \o <<" WHERE id = ?">>,
   params |-> PropertyValues(configs, instance, filter)
              \o <<AccessorCall(<<>>, instance.id, ColumnId.p).val>>]

NoStatement == [query |-> <<>>, params |-> <<>>]

StmtInit ==
  /\ statement \in {[chain |-> c0, instance |-> instance, call |-> "none",
                     filter |-> NoFilter, sent |-> NoStatement] :
                      c0 \in StatementChains, instance \in StatementInstances}
  /\ heap = <<>>
  /\ conn = <<>>
  /\ loading = <<>>
  /\ registry = <<>>
  /\ queries = <<>>
  /\ nested = <<>>
  /\ config = <<>>
  /\ json = <<>>
  /\ AccIdle
  /\ InhIdle
  /\ DbIdle
  /\ CodecIdle

StmtRest ==
  UNCHANGED <<heap, conn, loading, registry, queries, nested, config, json,
              accVars, inhVars, dbVars, codec>>

\* await instance.insert(db)
StmtInsert ==
  /\ statement.call = "none"
  /\ statement' = [statement EXCEPT !.call = "insert",
                     !.sent = InsertStatement(statement.chain, statement.instance)]
  /\ StmtRest

\* await instance.update(db, propertiesToLoad, options)
StmtUpdate(filter) ==
  /\ statement.call = "none"
  /\ statement' = [statement EXCEPT !.call = "update", !.filter = filter,
                     !.sent = UpdateStatement(statement.chain, statement.instance, filter)]
  /\ StmtRest

StmtNext ==
  \/ StmtInsert
  \/ \E filter \in PropertyFilters : StmtUpdate(filter)

StmtSpec == StmtInit /\ [][StmtNext]_vars

\* the column names and the placeholders read back from a query text
QueryColumns(query) == SelectSeq(query, LAMBDA piece : piece \in ColumnPoolNames)
QueryPlaceholders(query) ==
  SelectSeq(query, LAMBDA piece : piece \in {"?", " = ?", " WHERE id = ?"})

\* the saved value of the property a column names
SavedValue(instance, name) == SaveTransform(instance[name], ColumnNamed(name).p)

\* C23: in what insert passes to the service the column list, the
\* placeholder list and the parameter list have one length, the i-th
\* parameter is the saveTransform of the property the i-th column names, the
\* columns are the stored properties other than id in parent-first
\* declaration order
C23_InsertColumnsMatchParams ==
  statement.call = "insert" =>
    LET columns == QueryColumns(statement.sent.query)
        expected == SelectSeq(Flatten(statement.chain),
                              LAMBDA c : c.p.name # "id" /\ c.store)
    IN /\ Len(columns) = Len(statement.sent.params)
       /\ Len(QueryPlaceholders(statement.sent.query)) = Len(statement.sent.params)
       /\ columns = [i \in 1..Len(expected) |-> expected[i].p.name]
       /\ \A i \in 1..Len(columns) :
            statement.sent.params[i] = SavedValue(statement.instance, columns[i])

\* an insert of a class whose parent and own lists hold stored and unstored
\* properties and id
C23_Witness ==
  /\ statement.call = "insert"
  /\ Len(statement.chain) = 2
  /\ statement.chain[1] = <<ColumnId, ColumnLabel>>
  /\ statement.chain[2] = <<ColumnHidden, ColumnFlag>>
  /\ statement.sent.params = <<StrA, Num(10)>>

\* the property names in the SET list of an update
SetColumns(query) == QueryColumns(query)

\* C24: in what update passes to the service the SET list never names id and
\* names exactly the selected stored properties other than id, parent first;
\* the parameters are their saved values in that order, then the instance's
\* id last; there are as many placeholders as parameters
C24_UpdateSetMatchesParams ==
  statement.call = "update" =>
    LET columns == SetColumns(statement.sent.query)
        params == statement.sent.params
        selected(c) ==
          \/ statement.filter.names = {}
          \/ statement.filter.inverse # (c.p.name \in statement.filter.names)
        expected == SelectSeq(Flatten(statement.chain),
                              LAMBDA c : c.p.name # "id" /\ c.store /\ selected(c))
    IN /\ \A i \in 1..Len(columns) : columns[i] # "id"
       /\ columns = [i \in 1..Len(expected) |-> expected[i].p.name]
       /\ Len(params) = Len(columns) + 1
       /\ \A i \in 1..Len(columns) :
            params[i] = SavedValue(statement.instance, columns[i])
       /\ params[Len(params)] = statement.instance.id
       /\ Len(QueryPlaceholders(statement.sent.query)) = Len(params)

\* an update limited to label, of a class that also stores flag and whose
\* parent declares id
C24_Witness ==
  /\ statement.call = "update"
  /\ statement.filter = [names |-> {"label"}, inverse |-> FALSE]
  /\ statement.chain = <<(<<ColumnId, ColumnFlag>>), (<<ColumnLabel, ColumnHidden>>)>>
  /\ statement.sent.query = <<"UPDATE t SE", "T ", "label", " = ?", " WHERE id = ?">>
  /\ statement.sent.params = <<statement.instance.label, Num(10)>>

-----------------------------------------------------------------------------
(* load(id, db): the order in which the stored properties are deserialized
   and set, and the queries one load has outstanding on the service *)

\* a property as loadProperties sees it: lookups is the number of queries
\* its loadTransform issues (none for a plain column, one for a nested
\* instance, one per element for an array of instances)
Loaded(name, store, lookups) == [name |-> name, store |-> store, lookups |-> lookups]

LoadPool ==
  {Loaded("id", TRUE, 0), Loaded("owner", TRUE, 1), Loaded("items", TRUE, 2),
   Loaded("draft", FALSE, 1)}

LoadListsUpTo(n) == UNION {[1..k -> LoadPool] : k \in 0..n}

LoadChains ==
  {<<own>> : own \in LoadListsUpTo(MaxProperties)}
    \cup {<<parent, own>> : parent \in LoadListsUpTo(MaxProperties),
                            own \in LoadListsUpTo(MaxProperties)}

LoadFilters ==
  {NoFilter, [names |-> {"owner"}, inverse |-> FALSE], [names |-> {"owner"}, inverse |-> TRUE]}

\* the tests that make loadProperties `continue`
LoadSkipped(c, filter) ==
  \/ ~c.store
  \/ /\ filter.names # {}
     /\ \/ ~filter.inverse /\ c.name \notin filter.names
        \/ filter.inverse /\ c.name \in filter.names

\* loadProperties awaits itself on obj.extendsConfig, then runs its for loop:
\* the properties it reaches, in the order it reaches them
RECURSIVE LoadOrder(_, _, _)
LoadOrder(configs, level, filter) ==
  IF level = 0 THEN <<>>
  ELSE LoadOrder(configs, level - 1, filter)
         \o SelectSeq(configs[level], LAMBDA c : ~LoadSkipped(c, filter))

LoadInit ==
  /\ loading \in {[configs |-> configs, filter |-> filter, pc |-> "new",
                   order |-> LoadOrder(configs, Len(configs), filter),
                   started |-> <<>>, set |-> <<>>, remaining |-> 0, outstanding |-> 0] :
                    configs \in LoadChains, filter \in LoadFilters}
  /\ heap = <<>>
  /\ conn = <<>>
  /\ statement = <<>>
  /\ registry = <<>>
  /\ queries = <<>>
  /\ nested = <<>>
  /\ config = <<>>
  /\ json = <<>>
  /\ AccIdle
  /\ InhIdle
  /\ DbIdle
  /\ CodecIdle

LoadRest ==
  UNCHANGED <<heap, conn, statement, registry, queries, nested, config, json,
              accVars, inhVars, dbVars, codec>>

\* const result = await db.awaitQuery(query, [arg1])
LoadSelect ==
  /\ loading.pc = "new"
  /\ loading' = [loading EXCEPT !.pc = "selecting", !.outstanding = @ + 1]
  /\ LoadRest

\* the service answers the SELECT; `if ( !result[0] ) return null`
LoadSelected(found) ==
  /\ loading.pc = "selecting"
  /\ loading' = [loading EXCEPT !.pc = IF found THEN "loop" ELSE "null",
                                !.outstanding = @ - 1]
  /\ LoadRest

\* a loop that would call loadTransform and go on without awaiting it
LoadPropertyDetached(l) ==
  LET c == l.order[Len(l.started) + 1]
  IN [l EXCEPT !.started = Append(@, c.name),
               !.set = IF c.lookups = 0 THEN Append(@, c.name) ELSE @,
               !.outstanding = IF c.lookups > 0 THEN @ + 1 ELSE @]

\* the loop calls loadTransform of the next property and awaits it; a
\* loadTransform that has lookups to do issues the first and awaits it
LoadProperty(l) ==
  LET c == l.order[Len(l.started) + 1]
  IN [l EXCEPT !.started = Append(@, c.name),
               !.pc = IF c.lookups > 0 THEN "lookup" ELSE "transformed",
               !.remaining = IF c.lookups > 0 THEN c.lookups - 1 ELSE 0,
               !.outstanding = IF c.lookups > 0 THEN @ + 1 ELSE @]

LoadTransformStart ==
  /\ loading.pc = "loop"
  /\ Len(loading.started) < Len(loading.order)
  /\ loading' = LoadProperty(loading)
  /\ LoadRest

\* the service answers a lookup; the loadTransform issues the next one
\* (`arr.push(await ... .load(objectIds[i], db))`) or returns
LoadLookupAnswer ==
  /\ loading.pc = "lookup"
  /\ loading.outstanding > 0
  /\ loading' = IF loading.remaining > 0
                 THEN [loading EXCEPT !.remaining = @ - 1]
                 ELSE [loading EXCEPT !.pc = "transformed", !.outstanding = @ - 1]
  /\ LoadRest

\* this[obj.properties[i].name](...) with the awaited value
LoadSet ==
  /\ loading.pc = "transformed"
  /\ loading' = [loading EXCEPT
                   !.set = Append(@, loading.started[Len(loading.started)]),
                   !.pc = "loop"]
  /\ LoadRest

\* await loadProperties(obj) returns
LoadReturn ==
  /\ loading.pc = "loop"
  /\ Len(loading.started) = Len(loading.order)
  /\ loading' = [loading EXCEPT !.pc = "loaded"]
  /\ LoadRest

LoadNext ==
  \/ LoadSelect
  \/ \E found \in BOOLEAN : LoadSelected(found)
  \/ LoadTransformStart
  \/ LoadLookupAnswer
  \/ LoadSet
  \/ LoadReturn

LoadSpec == LoadInit /\ [][LoadNext]_vars

\* the stored, selected properties, parent first
LoadExpected(l) ==
  LET selected(c) == l.filter.names = {} \/ l.filter.inverse # (c.name \in l.filter.names)
      kept == SelectSeq(Flatten(l.configs), LAMBDA c : c.store /\ selected(c))
  IN [i \in 1..Len(kept) |-> kept[i].name]

\* C25: a load populates the stored properties one at a time, parent first:
\* the deserialization of a property starts only after the one before it was
\* set, and the load never has two queries outstanding on the service
C25_LoadOneAtATime ==
  /\ loading.outstanding <= 1
  /\ Len(loading.started) - Len(loading.set) \in {0, 1}
  /\ loading.set = SubSeq(LoadExpected(loading), 1, Len(loading.set))
  /\ loading.started = SubSeq(LoadExpected(loading), 1, Len(loading.started))
  /\ loading.pc = "loaded" => loading.set = LoadExpected(loading)

\* a load whose parent holds an array of instances and whose own list holds a
\* nested instance, at the moment the nested lookup is outstanding
C25_Witness ==
  /\ loading.pc = "lookup"
  /\ loading.outstanding = 1
  /\ loading.started = <<"items", "id", "owner">>
  /\ loading.set = <<"items", "id">>

-----------------------------------------------------------------------------
(* The element rule of an array property against the scalar rule of its kind *)

\* the scalar property of the element kind of an array property, with the
\* allowNull of its elements
ScalarOfElement(p) ==
  [name |-> p.name,
   type |-> p.arrayOf.type,
   originalType |-> p.arrayOf.originalType,
   arrayOf |-> NoArrayOf,
   allowNull |-> p.arrayOf.allowNull,
   length |-> p.arrayOf.length,
   default |-> NoDefault]

\* C26: assigning the one-element array [e] to an array property is rejected
\* exactly when assigning e to a scalar property of the element kind (same
\* allowNull) is rejected, and when accepted the stored element is the value
\* the scalar rule stores
C26_ElementRuleIsScalarRule ==
  (/\ Constructed
   /\ call.name = "set"
   /\ property.type = "array"
   /\ call.args[1].t = "Array"
   /\ Len(call.args[1].v) = 1)
    => LET e == call.args[1].v[1]
           scalar == ScalarOfElement(property)
       IN /\ (result.status = "TypeError") = SetTransformThrows(e, scalar)
          /\ result.status # "TypeError" => slot = Arr(<<SetTransformValue(e, scalar)>>)

-----------------------------------------------------------------------------
(* The type registry (ezobjectTypes) under validation: the descriptors are
   objects shared by every property that resolves to them *)

MaxValidations == 2

\* the mysqlType of the descriptors the configurations below resolve to
InitialDescriptors ==
  [type \in {"int", "varchar", "date", "other"} |->
     [mysqlType |-> CASE type = "int" -> "int"
                      [] type = "varchar" -> "varchar"
                      [] type = "date" -> "date"
                      [] OTHER -> "tinytext"]]

\* ezobjectTypes.find(x => x.type == property.type), or the `other` descriptor
DescriptorOf(type) == IF type \in {"int", "varchar", "date"} THEN type ELSE "other"

\* a property configuration as the caller writes it
Unvalidated(name, type, mysqlType, values) ==
  [name |-> name, type |-> type, originalType |-> NotGiven, mysqlType |-> mysqlType,
   values |-> values, length |-> IF ToLowerCase(type) = "varchar" THEN Length(2) ELSE NoLength,
   allowNull |-> "unset", store |-> "unset", ezobjectType |-> NotGiven]

RegistryProperties ==
  {Unvalidated("p", type, mysqlType, values) :
     type \in {"int", "INT", "varchar", "date", "Worker"},
     mysqlType \in {NotGiven, "bigint", "enum"}, values \in BOOLEAN}

RegistryLists == UNION {[1..k -> RegistryProperties] : k \in 0..MaxProperties}

\* validatePropertyConfig(property) with the registry it reads and writes:
\* what it leaves in the property and in the descriptors, and whether it threw
ValidateWithRegistry(descriptors, p) ==
  LET recorded == p.originalType # NotGiven
      type == IF recorded THEN p.type ELSE ToLowerCase(p.type)
      key == DescriptorOf(type)
      written == IF p.mysqlType # NotGiven
                 THEN [descriptors EXCEPT ![key].mysqlType = p.mysqlType]
                 ELSE descriptors
      attached == [p EXCEPT !.type = type,
                            !.originalType = IF recorded THEN @ ELSE p.type,
                            !.ezobjectType = key]
  IN IF LengthThrows(type, p.length) \/ (written[key].mysqlType = "enum" /\ ~p.values)
     THEN [ok |-> FALSE, descriptors |-> written, p |-> attached]
     ELSE [ok |-> TRUE, descriptors |-> written,
           p |-> [attached EXCEPT
                    !.store = IF @ = "unset" THEN "true" ELSE @,
                    !.allowNull = IF @ # "unset" THEN @
                                  ELSE IF AllowNullDefault(type) THEN "true" ELSE "false"]]

\* obj.properties.forEach(validatePropertyConfig) from property i on; a throw
\* ends the loop and leaves what was written so far
RECURSIVE ValidateEach(_, _, _)
ValidateEach(descriptors, properties, i) ==
  IF i > Len(properties)
  THEN [status |-> "ok", descriptors |-> descriptors, properties |-> properties]
  ELSE LET r == ValidateWithRegistry(descriptors, properties[i])
           written == [properties EXCEPT ![i] = r.p]
       IN IF r.ok THEN ValidateEach(r.descriptors, written, i + 1)
          ELSE [status |-> "Error", descriptors |-> r.descriptors, properties |-> written]

RegInit ==
  /\ registry \in {[descriptors |-> InitialDescriptors, properties |-> properties, runs |-> 0,
                    status |-> "new",
                    first |-> [status |-> "new", descriptors |-> InitialDescriptors,
                               properties |-> <<>>]] :
                     properties \in RegistryLists}
  /\ heap = <<>>
  /\ conn = <<>>
  /\ statement = <<>>
  /\ loading = <<>>
  /\ queries = <<>>
  /\ nested = <<>>
  /\ config = <<>>
  /\ json = <<>>
  /\ AccIdle
  /\ InhIdle
  /\ DbIdle
  /\ CodecIdle

RegRest ==
  UNCHANGED <<heap, conn, statement, loading, queries, nested, config, json,
              accVars, inhVars, dbVars, codec>>

\* validateClassConfig(obj) on a configuration not validated before
RegValidate ==
  LET r == ValidateEach(registry.descriptors, registry.properties, 1) IN
  /\ registry.runs = 0
  /\ registry' = [descriptors |-> r.descriptors, properties |-> r.properties, runs |-> 1,
                  status |-> r.status, first |-> r]
  /\ RegRest

\* validateClassConfig(obj) on the same object again, as createClass does
\* after createTable
RegValidateAgain ==
  LET r == ValidateEach(registry.descriptors, registry.properties, 1) IN
  /\ registry.runs >= 1
  /\ registry.runs < MaxValidations
  /\ registry' = [registry EXCEPT !.descriptors = r.descriptors,
                                  !.properties = r.properties,
                                  !.runs = @ + 1,
                                  !.status = r.status]
  /\ RegRest

RegNext ==
  \/ RegValidate
  \/ RegValidateAgain

RegSpec == RegInit /\ [][RegNext]_vars

\* C27: validating a class configuration never changes a descriptor of the
\* type registry; a kind resolves to the same mysqlType whatever was
\* validated before
C27_RegistryUnchanged ==
  registry.descriptors = InitialDescriptors

\* C28: validation is idempotent: validating an accepted configuration again
\* succeeds and leaves every field of every property, and the descriptors
\* they resolve to, as the first validation left them
C28_ValidationIdempotent ==
  (registry.runs >= 2 /\ registry.first.status = "ok")
    => /\ registry.status = "ok"
       /\ registry.properties = registry.first.properties
       /\ registry.descriptors = registry.first.descriptors

-----------------------------------------------------------------------------
(* Construction without a seed *)

\* C29: for a property that configures no default, constructing an instance
\* with no seed succeeds: the built-in default of the kind passes the
\* property's own rule under its effective allowNull
C29_DefaultPassesOwnRule ==
  (/\ call.name = "construct"
   /\ call.args = <<Undef, Undef>>
   /\ property.default = NoDefault)
    => result.status # "TypeError"
=============================================================================
